---- MODULE Spec2Model ----
(***************************************************************************)
(* Verification model of coriolinus/adventofcode-2016:                     *)
(*   - the shared assembunny interpreter (assembunny/src/lib.rs) and the   *)
(*     day25 consumer of its output channel (day25/src/lib.rs);            *)
(*   - the day11 elevator search (day11/src/lib.rs, state.rs, floor.rs).   *)
(***************************************************************************)
EXTENDS Integers, Sequences, FiniteSets, TLC

(***************************************************************************)
(* Bounds                                                                  *)
(***************************************************************************)
MaxProgLen == 2
MaxSteps == 5
MaxRules == 2
MaxInstructions == 3
MaxPieces == 3
MaxLines == 2
MaxBy == 4
MaxOps == 2

(***************************************************************************)
(* Integer = i32                                                           *)
(***************************************************************************)
MaxInt == 2147483647
MinInt == (-2147483647) - 1

\* x + y on i32: ovf tells whether the exact sum leaves i32, val is the
\* wrapped (two's complement) sum.  No intermediate value leaves i32.
Add32(x, y) ==
    IF y > 0 /\ x > MaxInt - y
    THEN [ovf |-> TRUE, val |-> ((x - MaxInt) - 1) + ((y - MaxInt) - 1)]
    ELSE IF y < 0 /\ x < MinInt - y
    THEN [ovf |-> TRUE, val |-> ((x + MaxInt) + 1) + ((y + MaxInt) + 1)]
    ELSE [ovf |-> FALSE, val |-> x + y]

(***************************************************************************)
(* Register, Value, Instruction                                            *)
(***************************************************************************)
Register == {"a", "b", "c", "d"}

Reg(r) == [k |-> "reg", r |-> r, n |-> 0]
Lit(n) == [k |-> "lit", r |-> "-", n |-> n]
\* the absent second operand of a one-operand instruction
NoOperand == [k |-> "nil", r |-> "-", n |-> 0]

Copy(x, y) == [op |-> "Copy", x |-> x, y |-> y]
Increase(x) == [op |-> "Increase", x |-> x, y |-> NoOperand]
Decrease(x) == [op |-> "Decrease", x |-> x, y |-> NoOperand]
Jnz(x, y) == [op |-> "Jnz", x |-> x, y |-> y]
Toggle(x) == [op |-> "Toggle", x |-> x, y |-> NoOperand]
Out(x) == [op |-> "Out", x |-> x, y |-> NoOperand]

\* operands and instructions the initial programs are drawn from
OperandValues == {Reg("a"), Lit(-1), Lit(1), Lit(MaxInt)}

\* the values register a is seeded with before the run (day25 part1, day23)
Seeds == {0, 1}

Instructions ==
    {Copy(x, y) : x \in OperandValues, y \in OperandValues}
    \cup {Jnz(x, y) : x \in OperandValues, y \in OperandValues}
    \cup {Increase(x) : x \in OperandValues}
    \cup {Decrease(x) : x \in OperandValues}
    \cup {Toggle(x) : x \in OperandValues}
    \cup {Out(x) : x \in OperandValues}

Programs == UNION {[1..n -> Instructions] : n \in 0..MaxProgLen}

NoRegister == "-"

as_register_literal_is_a(v) == IF v.k = "reg" THEN v.r ELSE "a"

as_register(v) == IF v.k = "reg" THEN v.r ELSE NoRegister

toggle_keeps_out(i) ==
    CASE i.op = "Increase" -> Decrease(i.x)
      [] i.op = "Decrease" -> Increase(i.x)
      [] i.op = "Toggle" -> Increase(i.x)
      [] i.op = "Out" -> i
      [] i.op = "Jnz" -> Copy(i.x, i.y)
      [] i.op = "Copy" -> Jnz(i.x, i.y)

\* the mutant of toggle for a Copy onto a literal: the Copy is kept
toggle_keeps_literal_copy(i) ==
    CASE i.op = "Increase" -> Decrease(i.x)
      [] i.op = "Decrease" -> Increase(i.x)
      [] i.op = "Toggle" -> Increase(i.x)
      [] i.op = "Out" -> Increase(i.x)
      [] i.op = "Jnz" -> Copy(i.x, i.y)
      [] i.op = "Copy" -> IF i.y.k = "lit" THEN i ELSE Jnz(i.x, i.y)

toggle(i) ==
    CASE i.op = "Increase" -> Decrease(i.x)
      [] i.op = "Decrease" -> Increase(i.x)
      [] i.op = "Toggle" -> Increase(i.x)
      [] i.op = "Out" -> Increase(i.x)
      [] i.op = "Jnz" -> Copy(i.x, i.y)
      [] i.op = "Copy" -> Jnz(i.x, i.y)

(***************************************************************************)
(* Computer                                                                *)
(***************************************************************************)
\* !0 as usize: the all-ones pattern, written as the integer it is in two's
\* complement; no index is negative.
HALT_IP == -1

\* if this many values match, assume all of them will
LENGTH_ASSUMPTION == 64

\* the bound passed to sync_channel
CHANNEL_BOUND_ONE == 0 + 1

CHANNEL_BOUND == 0

VARIABLES
    program,          \* Computer.program
    regs,             \* Computer.a .. Computer.d
    ip,               \* Computer.ip
    sender,           \* Computer.sender: "None" or "Some"
    pc,               \* the thread in run: "running", "sending", "sent", "halted", "panicked"
    overflow_checks,  \* build profile: "on" (debug), "off" (release), "unknown" until it first matters
    steps,            \* number of step calls made by run
    last,             \* the latest step call: the state it started from and what it did
    pending,          \* the value a blocked send offers, <<>> when there is none
    buf,              \* values buffered in the channel
    receiver,         \* "alive" or "dropped"; "none" when no channel was made
    cpc,              \* day25 part1, the receiving thread: "none", "recv", "check", "done"
    received,         \* the values the receiving iterator yielded
    outs              \* the values of the Out instructions executed

cvars == <<program, regs, ip, sender, pc, overflow_checks, steps, last,
           pending, buf, receiver, cpc, received, outs>>

\* day11
VARIABLES
    revision,   \* "lib": lib.rs goalseek with State::next; "state": the search over state.rs State::children
    initial,    \* the state the search was started from
    queue,      \* VecDeque of (steps, state)
    visited,    \* lib.rs: HashSet<Isomorph>; state.rs: HashSet<State>
    result,     \* <<n>> for Some(n), <<>> for None
    gpc         \* "loop" while the search runs, "done" when it returned

dvars == <<revision, initial, queue, visited, result, gpc>>

\* day11 State::isomorph, both revisions, called on its own
VARIABLES
    isofn,      \* "lib.rs" or "state.rs": the revision whose isomorph is called
    subject,    \* the state it is called on
    renamed,    \* the same state under a renaming of the elements
    isomorphs,  \* <<isomorph of subject, isomorph of renamed>>, <<>> before the call
    ipc         \* "call" before the call, "done" after it

ivars == <<isofn, subject, renamed, isomorphs, ipc>>

\* day20
VARIABLES
    rfn,        \* the function called: "lowest_legal_value" or "num_legal_values_in"
    rules,      \* the rules handed to it, in the order of the input
    bounds,     \* the bounds handed to num_legal_values_in
    answer,     \* what the call returned
    rpc         \* "call" before the call, "returned" or "panicked" after it

rvars == <<rfn, rules, bounds, answer, rpc>>

\* day10 process
VARIABLES
    input,          \* the slice of instructions handed to process
    bots,           \* Bots: the map from Id to Bot
    outputs,        \* Outputs: the map from Id to Value
    instructions,   \* the VecDeque of the instructions still to do
    ppc,            \* "loop" inside the while loop; "Ok", "Err" when process returned
    transfers,      \* the Transfer instructions that found their bot full, in the order they did
    plast           \* the latest turn of the loop: what it started from and what it called

pvars == <<input, bots, outputs, instructions, ppc, transfers, plast>>

\* day09 decompress and count_decompressed_v2
VARIABLES
    zfn,          \* the function called: "decompress" or "count_decompressed_v2"
    text,         \* its input, a sequence of characters
    pos,          \* the number of characters the loop has taken from the input
    zstate,       \* decompress: the State of the state machine
    output,       \* decompress: the output String
    total,        \* count_decompressed_v2: the BigUint total
    zret          \* what the call returned; kind "-" while it runs

zvars == <<zfn, text, pos, zstate, output, total, zret>>

\* day02 Key and decode_on
VARIABLES
    kfn,      \* the function called: "shift_many" or "decode_on"
    keypad,   \* the Keypad of the Key, rows of cells from the top
    kkey,     \* the Key's x and y
    klines,   \* decode_on: the lines of the reader
    kidx,     \* decode_on: the number of lines read
    insts,    \* the instructions of the current line that shift_many still has to apply
    kpc,      \* decode_on: "line" before a line is read, "shift" inside shift_many
    code,     \* decode_on: the String out
    kshift,   \* history: the last call of Key::shift, its instruction and the key before it
    kret      \* what decode_on returned; kind "-" while it runs

kvars == <<kfn, keypad, kkey, klines, kidx, insts, kpc, code, kshift, kret>>

\* day08 Screen
VARIABLES
    sfn,      \* "apply" for a Screen under any instructions, "test_example" for the test
    size,     \* width and height of the Map
    screen,   \* the lit pixels: Points of the Map, whose origin is the bottom left
    sidx,     \* test_example: the number of instructions of EXAMPLE applied
    sprev,    \* history: the lit pixels before the last call of apply
    sinst,    \* history: the Instruction of the last call of apply
    spanic    \* the last call of apply panicked

svars == <<sfn, size, screen, sidx, sprev, sinst, spanic>>

\* day14 generate_onetime_pad
VARIABLES
    special,    \* the hashes make_hash gives at the special indices
    hidx,       \* idx, the next index to hash
    potential,  \* State: for every character the queue of indices of its pending triplets
    keys,       \* the Vec keys of (insert, key), in the order of their confirmation
    hret        \* what generate_onetime_pad returned

hvars == <<special, hidx, potential, keys, hret>>

\* day21 scramble and unscramble
VARIABLES
    winput,   \* the input of scramble
    ops,      \* the operations handed to scramble, and then to unscramble
    buffer,   \* the VecDeque buffer of the function that runs
    todo,     \* unscramble: the reversed operations it still has to unapply
    wpc       \* "scramble", "unscramble", "returned"; "panicked" after a panic

wvars == <<winput, ops, buffer, todo, wpc>>

\* day11 visited set
VARIABLES
    vfn,        \* the revision whose visited set is asked: "lib.rs" or "state.rs"
    earlier,    \* a state visited before
    candidate,  \* the candidate child
    discarded,  \* whether the visited set holds the candidate: "-" before the lookup
    vpc         \* "call" before the lookup, "done" after it

vvars == <<vfn, earlier, candidate, discarded, vpc>>

\* day12 beside the shared interpreter
VARIABLES
    tbuild,     \* build profile of the workspace: overflow checks "on" or "off"
    twelve,     \* the day12 Computer: program, regs, ip and the state of run
    shared,     \* the assembunny Computer run on the same text and seeding
    ttrace,     \* (regs, ip, status) after each step call of the day12 Computer
    strace      \* the same for the assembunny Computer

tvars == <<tbuild, twelve, shared, ttrace, strace>>

vars == <<cvars, dvars, ivars, rvars, pvars, zvars, kvars, svars, hvars, wvars, vvars, tvars>>

\* what an action of one program leaves alone
not_cvars == <<dvars, ivars, rvars, pvars, zvars, kvars, svars, hvars, wvars, vvars, tvars>>
not_dvars == <<cvars, ivars, rvars, pvars, zvars, kvars, svars, hvars, wvars, vvars, tvars>>
not_ivars == <<cvars, dvars, rvars, pvars, zvars, kvars, svars, hvars, wvars, vvars, tvars>>
not_rvars == <<cvars, dvars, ivars, pvars, zvars, kvars, svars, hvars, wvars, vvars, tvars>>
not_pvars == <<cvars, dvars, ivars, rvars, zvars, kvars, svars, hvars, wvars, vvars, tvars>>
not_zvars == <<cvars, dvars, ivars, rvars, pvars, kvars, svars, hvars, wvars, vvars, tvars>>
not_kvars == <<cvars, dvars, ivars, rvars, pvars, zvars, svars, hvars, wvars, vvars, tvars>>
not_svars == <<cvars, dvars, ivars, rvars, pvars, zvars, kvars, hvars, wvars, vvars, tvars>>
not_hvars == <<cvars, dvars, ivars, rvars, pvars, zvars, kvars, svars, wvars, vvars, tvars>>
not_wvars == <<cvars, dvars, ivars, rvars, pvars, zvars, kvars, svars, hvars, vvars, tvars>>
not_vvars == <<cvars, dvars, ivars, rvars, pvars, zvars, kvars, svars, hvars, wvars, tvars>>
not_tvars == <<cvars, dvars, ivars, rvars, pvars, zvars, kvars, svars, hvars, wvars, vvars>>

\* State::default() of day11, with no parent and no device
NoState ==
    [elevator |-> 0,
     floors |-> [i \in 0..3 |-> [generators |-> {}, microchips |-> {}]]]

value(rs, v) == IF v.k = "reg" THEN rs[v.r] ELSE v.n

\* (0..self.program.len()).contains(&(n as usize)) for an i32 n: a negative
\* n becomes a usize above every length
in_program_inclusive(prog, n) == 0 <= n /\ n <= Len(prog)

in_program(prog, n) == 0 <= n /\ n < Len(prog)

\* Instruction at index i (0-based, as in the source)
At(prog, i) == prog[i + 1]

NoInstr == [op |-> "-", x |-> NoOperand, y |-> NoOperand]

\* Outcome of an i32 addition in a build with (oc = "on") or without
\* overflow checks.
Panics(s, oc) == s.ovf /\ oc = "on"

\* lines 112-128: the effect of a non-Out instruction on registers and program
exec(prog, rs, i, instr, oc) ==
    CASE instr.op = "Copy" ->
            LET r == as_register(instr.y) IN
            [panic |-> FALSE, ovf |-> FALSE, program |-> prog,
             regs |-> IF r # NoRegister THEN [rs EXCEPT ![r] = value(rs, instr.x)] ELSE rs]
      [] instr.op \in {"Increase", "Decrease"} ->
            LET r == as_register(instr.x)
                s == IF r # NoRegister
                     THEN Add32(rs[r], IF instr.op = "Increase" THEN 1 ELSE -1)
                     ELSE [ovf |-> FALSE, val |-> 0]
            IN  [panic |-> Panics(s, oc), ovf |-> s.ovf, program |-> prog,
                 regs |-> IF r # NoRegister /\ ~Panics(s, oc)
                          THEN [rs EXCEPT ![r] = s.val] ELSE rs]
      [] instr.op = "Toggle" ->
            \* instruction_offset
            LET s == Add32(i, value(rs, instr.x)) IN
            [panic |-> Panics(s, oc), ovf |-> s.ovf, regs |-> rs,
             program |-> IF ~Panics(s, oc) /\ in_program(prog, s.val)
                         THEN [prog EXCEPT ![s.val + 1] = toggle(@)] ELSE prog]
      [] OTHER ->
            [panic |-> FALSE, ovf |-> FALSE, program |-> prog, regs |-> rs]

advance_inclusive(prog, rs, i, oc) ==
    LET instr == At(prog, i)
        d == IF instr.op = "Jnz" /\ value(rs, instr.x) # 0
             THEN value(rs, instr.y) ELSE 1
        s == Add32(i, d)
    IN  [panic |-> Panics(s, oc), ovf |-> s.ovf, next_ip |-> s.val,
         ip |-> IF in_program_inclusive(prog, s.val) THEN s.val ELSE HALT_IP]

\* lines 141-151: the next ip, from the instruction now at ip
advance(prog, rs, i, oc) ==
    LET instr == At(prog, i)
        d == IF instr.op = "Jnz" /\ value(rs, instr.x) # 0
             THEN value(rs, instr.y) ELSE 1
        s == Add32(i, d)
    IN  [panic |-> Panics(s, oc), ovf |-> s.ovf, next_ip |-> s.val,
         ip |-> IF in_program(prog, s.val) THEN s.val ELSE HALT_IP]

Builds == IF overflow_checks = "unknown" THEN {"on", "off"} ELSE {overflow_checks}

Snapshot(instr) ==
    [called |-> TRUE, ip |-> ip, regs |-> regs, program |-> program,
     instr |-> instr, next_ip |-> <<>>, ret |-> "none"]

NoLast ==
    [called |-> FALSE, ip |-> 0, regs |-> [r \in Register |-> 0], program |-> <<>>,
     instr |-> NoInstr, next_ip |-> <<>>, ret |-> "none"]

\* the programs a specification does not run: nothing constructed, nothing called
NoComputer ==
    /\ program = <<>>
    /\ regs = [r \in Register |-> 0]
    /\ ip = 0
    /\ sender = "None"
    /\ pc = "halted"
    /\ overflow_checks = "unknown"
    /\ steps = 0
    /\ last = NoLast
    /\ pending = <<>>
    /\ buf = <<>>
    /\ receiver = "none"
    /\ cpc = "none"
    /\ received = <<>>
    /\ outs = <<>>

NoSearch ==
    /\ revision = "-"
    /\ initial = NoState
    /\ queue = <<>>
    /\ visited = {}
    /\ result = <<>>
    /\ gpc = "done"

NoIsomorph ==
    /\ isofn = "-"
    /\ subject = NoState
    /\ renamed = NoState
    /\ isomorphs = <<>>
    /\ ipc = "done"

NoRules ==
    /\ rfn = "-"
    /\ rules = <<>>
    /\ bounds = [start |-> [bound |-> "Unbounded", v |-> <<0, 0>>],
                 end |-> [bound |-> "Unbounded", v |-> <<0, 0>>]]
    /\ answer = [kind |-> "-", val |-> <<0, 0>>]
    /\ rpc = "returned"

NoProcess ==
    /\ input = <<>>
    /\ bots = <<>>
    /\ outputs = <<>>
    /\ instructions = <<>>
    /\ ppc = "Ok"
    /\ transfers = <<>>
    /\ plast = [turns |-> 0, instruction |-> <<>>, bots |-> <<>>, outputs |-> <<>>,
                instructions |-> <<>>, full |-> FALSE, calls |-> <<>>, gives |-> <<>>]

NoDecompress ==
    /\ zfn = "-"
    /\ text = <<>>
    /\ pos = 0
    /\ zstate = [tag |-> "Normal", length |-> 0, count |-> 0, wip |-> <<>>]
    /\ output = <<>>
    /\ total = <<>>
    /\ zret = [kind |-> "Ok", error |-> "-", value |-> <<>>]

NoKey ==
    /\ kfn = "-"
    /\ keypad = <<>>
    /\ kkey = [x |-> 0, y |-> 0]
    /\ klines = <<>>
    /\ kidx = 0
    /\ insts = <<>>
    /\ kpc = "-"
    /\ code = <<>>
    /\ kshift = [inst |-> "-", from |-> [x |-> 0, y |-> 0]]
    /\ kret = [kind |-> "Ok", error |-> "-", value |-> <<>>]

NoScreen ==
    /\ sfn = "-"
    /\ size = [width |-> 0, height |-> 0]
    /\ screen = {}
    /\ sidx = 0
    /\ sprev = {}
    /\ sinst = [op |-> "-", a |-> 0, b |-> 0]
    /\ spanic = FALSE

NoPad ==
    /\ special = <<>>
    /\ hidx = 0
    /\ potential = <<>>
    /\ keys = <<>>
    /\ hret = [done |-> FALSE, pad |-> <<>>, final_insert |-> 0]

NoScramble ==
    /\ winput = <<>>
    /\ ops = <<>>
    /\ buffer = <<>>
    /\ todo = <<>>
    /\ wpc = "-"

NoVisited ==
    /\ vfn = "-"
    /\ earlier = NoState
    /\ candidate = NoState
    /\ discarded = "-"
    /\ vpc = "done"

NoPair ==
    /\ tbuild = "-"
    /\ twelve = [program |-> <<>>, regs |-> [r \in Register |-> 0], ip |-> 0, status |-> "halted"]
    /\ shared = [program |-> <<>>, regs |-> [r \in Register |-> 0], ip |-> 0, status |-> "halted"]
    /\ ttrace = <<>>
    /\ strace = <<>>

\* The computer after from_program, set_sender and the seeding of register a,
\* at the moment run starts (in its own thread after launch).
CInit ==
    /\ program \in Programs
    /\ \E seed \in Seeds : regs = [r \in Register |-> IF r = "a" THEN seed ELSE 0]
    /\ ip = 0
    /\ sender \in {"None", "Some"}
    /\ pc = "running"
    /\ overflow_checks = "unknown"
    /\ steps = 0
    /\ last = NoLast
    /\ pending = <<>>
    /\ buf = <<>>
    /\ receiver = IF sender = "Some" THEN "alive" ELSE "none"
    /\ cpc = IF sender = "Some" THEN "recv" ELSE "none"
    /\ received = <<>>
    /\ outs = <<>>
    /\ NoSearch
    /\ NoIsomorph
    /\ NoRules
    /\ NoProcess
    /\ NoDecompress
    /\ NoKey
    /\ NoScreen
    /\ NoPad
    /\ NoScramble
    /\ NoVisited
    /\ NoPair

\* the part of step after the match: lines 141-151
Finish(prog, rs, snap, oc, ovfBefore) ==
    LET a == advance(prog, rs, snap.ip, oc) IN
    /\ program' = prog
    /\ regs' = rs
    /\ overflow_checks' = IF ovfBefore \/ a.ovf THEN oc ELSE overflow_checks
    /\ IF a.panic
       THEN /\ pc' = "panicked"
            /\ ip' = ip
            /\ last' = [snap EXCEPT !.ret = "panic"]
       ELSE /\ ip' = a.ip
            /\ pc' = IF a.ip # HALT_IP THEN "running" ELSE "halted"
            /\ last' = [snap EXCEPT !.next_ip = <<a.next_ip>>,
                                    !.ret = IF a.ip # HALT_IP THEN "true" ELSE "false"]

\* run calls step; the instruction at ip is not an Out (or there is none)
Step ==
    /\ UNCHANGED not_cvars
    /\ pc = "running"
    /\ steps < MaxSteps
    /\ steps' = steps + 1
    /\ UNCHANGED <<sender, pending, buf, receiver, cpc, received, outs>>
    /\ IF ~in_program(program, ip)
       THEN \* self.program[self.ip] panics: index out of bounds
            /\ pc' = "panicked"
            /\ last' = [Snapshot(NoInstr) EXCEPT !.ret = "panic"]
            /\ UNCHANGED <<program, regs, ip, overflow_checks>>
       ELSE LET instr == At(program, ip) IN
            /\ instr.op # "Out"
            /\ \E oc \in Builds :
                 LET e == exec(program, regs, ip, instr, oc) IN
                 IF e.panic
                 THEN /\ pc' = "panicked"
                      /\ overflow_checks' = oc
                      /\ last' = [Snapshot(instr) EXCEPT !.ret = "panic"]
                      /\ UNCHANGED <<program, regs, ip>>
                 ELSE Finish(e.program, e.regs, Snapshot(instr), oc, e.ovf)

send_never_fails(rcv) == FALSE

\* SyncSender::send returns Err exactly when the receiver has been dropped
send_is_err(rcv) == rcv = "dropped"

\* run calls step; the instruction at ip is an Out: lines 129-138
StepOut ==
    /\ UNCHANGED not_cvars
    /\ pc = "running"
    /\ steps < MaxSteps
    /\ in_program(program, ip)
    /\ At(program, ip).op = "Out"
    /\ steps' = steps + 1
    /\ UNCHANGED <<sender, receiver, cpc, received>>
    /\ LET instr == At(program, ip)
           v == value(regs, instr.x)
       IN  IF sender = "None"
           THEN /\ pc' = "halted"
                /\ last' = [Snapshot(instr) EXCEPT !.ret = "false"]
                /\ UNCHANGED <<program, regs, ip, overflow_checks, pending, buf, outs>>
           ELSE /\ outs' = Append(outs, v)
                /\ IF send_is_err(receiver)
                   THEN /\ pc' = "halted"
                        /\ last' = [Snapshot(instr) EXCEPT !.ret = "false"]
                        /\ UNCHANGED <<program, regs, ip, overflow_checks, pending, buf>>
                   ELSE IF Len(buf) < CHANNEL_BOUND
                   THEN \* room in the buffer: send returns at once
                        /\ buf' = Append(buf, v)
                        /\ pending' = pending
                        /\ \E oc \in Builds : Finish(program, regs, Snapshot(instr), oc, FALSE)
                   ELSE \* send blocks until the value is taken
                        /\ pending' = <<v>>
                        /\ pc' = "sending"
                        /\ last' = Snapshot(instr)
                        /\ UNCHANGED <<program, regs, ip, overflow_checks, buf>>

\* the blocked send returns Ok: the rest of step
StepOutResume ==
    /\ UNCHANGED not_cvars
    /\ pc = "sent"
    /\ UNCHANGED <<sender, steps, pending, buf, receiver, cpc, received, outs>>
    /\ \E oc \in Builds : Finish(program, regs, last, oc, FALSE)

\* the blocked send returns Err: the receiver went away
SendErr ==
    /\ UNCHANGED not_cvars
    /\ pc = "sending"
    /\ send_is_err(receiver)
    /\ pc' = "halted"
    /\ pending' = <<>>
    /\ last' = [last EXCEPT !.ret = "false"]
    /\ UNCHANGED <<program, regs, ip, sender, overflow_checks, steps, buf,
                   receiver, cpc, received, outs>>

\* receiver.into_iter().next(): a value arrives
Recv ==
    /\ UNCHANGED not_cvars
    /\ cpc = "recv"
    /\ receiver = "alive"
    /\ cpc' = "check"
    /\ IF buf # <<>>
       THEN /\ received' = Append(received, Head(buf))
            /\ IF pending # <<>>
               THEN /\ buf' = Append(Tail(buf), pending[1])
                    /\ pending' = <<>>
                    /\ pc' = "sent"
               ELSE /\ buf' = Tail(buf)
                    /\ UNCHANGED <<pending, pc>>
       ELSE /\ pending # <<>>
            /\ received' = Append(received, pending[1])
            /\ pending' = <<>>
            /\ pc' = "sent"
            /\ buf' = buf
    /\ UNCHANGED <<program, regs, ip, sender, overflow_checks, steps, last,
                   receiver, outs>>

\* the n-th value of [0, 1].cycle(), n counted from 1
want_signal(n) == (n - 1) % 2

\* Iterator::eq over take(LENGTH_ASSUMPTION): compare the value just
\* received; stop at a mismatch or when LENGTH_ASSUMPTION values matched,
\* and the receiver is dropped at the end of the statement.
ConsumerCheck ==
    /\ UNCHANGED not_cvars
    /\ cpc = "check"
    /\ LET n == Len(received) IN
       IF received[n] # want_signal(n) \/ n = LENGTH_ASSUMPTION
       THEN cpc' = "done" /\ receiver' = "dropped"
       ELSE cpc' = "recv" /\ receiver' = receiver
    /\ UNCHANGED <<program, regs, ip, sender, pc, overflow_checks, steps, last,
                   pending, buf, received, outs>>

\* the computer's thread ended and its sender was dropped with it: the
\* iterator ends, eq returns false, the receiver is dropped
RecvDisconnected ==
    /\ UNCHANGED not_cvars
    /\ cpc = "recv"
    /\ pc \in {"halted", "panicked"}
    /\ buf = <<>>
    /\ cpc' = "done"
    /\ receiver' = "dropped"
    /\ UNCHANGED <<program, regs, ip, sender, pc, overflow_checks, steps, last,
                   pending, buf, received, outs>>

CNext ==
    \/ Step
    \/ StepOut
    \/ StepOutResume
    \/ SendErr
    \/ Recv
    \/ ConsumerCheck
    \/ RecvDisconnected


(***************************************************************************)
(* day11: devices, floors, states                                          *)
(***************************************************************************)
FLOORS == 4

\* Element, by its position in the enum (the order of the BTreeSets)
Cobalt == 0
Curium == 1
Hydrogen == 2
Lithium == 3
Plutonium == 4
Promethium == 5
Ruthenium == 6

Element == {Cobalt, Curium, Hydrogen, Lithium, Plutonium, Promethium, Ruthenium}

\* the elements the initial states are built from
Elements == {Hydrogen, Lithium}

Generator == "Generator"
Microchip == "Microchip"

Device(e, g) == [element |-> e, gadget |-> g]

EmptyFloor == [generators |-> {}, microchips |-> {}]

\* the elements of a BTreeSet in iteration order
RECURSIVE Ascending(_)
Ascending(S) ==
    IF S = {} THEN <<>>
    ELSE LET m == CHOOSE x \in S : \A y \in S : x <= y
         IN  <<m>> \o Ascending(S \ {m})

\* the inner while of lib.rs Floor::is_safe: advance the chip iterator to
\* the first chip equal to the generator; what is left of the iterator,
\* or "none" when it ran out
RECURSIVE SkipTo(_, _)
SkipTo(chips, g) ==
    IF chips = <<>> THEN [found |-> FALSE, rest |-> <<>>]
    ELSE IF Head(chips) = g THEN [found |-> TRUE, rest |-> Tail(chips)]
    ELSE SkipTo(Tail(chips), g)

RECURSIVE EveryGeneratorPaired(_, _)
EveryGeneratorPaired(gens, chips) ==
    IF gens = <<>> THEN TRUE
    ELSE LET r == SkipTo(chips, Head(gens))
         IN  r.found /\ EveryGeneratorPaired(Tail(gens), r.rest)

\* floor.rs Floor::is_safe
FloorRs_is_safe(f) == f.generators = {} \/ f.microchips \ f.generators = {}

\* lib.rs Floor::is_safe
LibFloor_is_safe(f) ==
    IF f.microchips = {} \/ f.generators = {} THEN TRUE
    ELSE EveryGeneratorPaired(Ascending(f.generators), Ascending(f.microchips))

Floor_is_empty(f) == f.microchips = {} /\ f.generators = {}

Floor_add_device(f, d) ==
    IF d.gadget = Generator
    THEN [f EXCEPT !.generators = @ \cup {d.element}]
    ELSE [f EXCEPT !.microchips = @ \cup {d.element}]

Floor_rm_device(f, d) ==
    IF d.gadget = Generator
    THEN [f EXCEPT !.generators = @ \ {d.element}]
    ELSE [f EXCEPT !.microchips = @ \ {d.element}]

\* Floor::devices: the generators, then the microchips
Floor_devices(f) ==
    LET g == Ascending(f.generators)
        m == Ascending(f.microchips)
    IN  [i \in 1..Len(g) |-> Device(g[i], Generator)]
        \o [i \in 1..Len(m) |-> Device(m[i], Microchip)]

\* a State without its parent link: the elevator and the floors 0..FLOORS-1
LibState_is_safe(s) == \A i \in 0..(FLOORS - 1) : LibFloor_is_safe(s.floors[i])

StateRs_is_safe(s) == \A i \in 0..(FLOORS - 1) : FloorRs_is_safe(s.floors[i])

State_is_goal(s) == \A i \in 0..(FLOORS - 2) : Floor_is_empty(s.floors[i])

\* the child with the devices of ds moved from the elevator's floor to
\* floor to, and the elevator with them
RECURSIVE MoveDevices(_, _, _)
MoveDevices(s, ds, to) ==
    IF ds = <<>> THEN [s EXCEPT !.elevator = to]
    ELSE LET d == Head(ds)
             t == [s EXCEPT !.floors[s.elevator] = Floor_rm_device(@, d),
                            !.floors[to] = Floor_add_device(@, d)]
         IN  MoveDevices(t, Tail(ds), to)

\* tuple_combinations: the pairs <<i, j>>, i < j, of 1..n in its order
RECURSIVE TupleCombinations(_, _, _)
TupleCombinations(i, j, n) ==
    IF i >= n THEN <<>>
    ELSE IF j > n THEN TupleCombinations(i + 1, i + 2, n)
    ELSE <<(<<i, j>>)>> \o TupleCombinations(i, j + 1, n)

\* cartesian_product(..).filter(a != b): the ordered pairs of distinct devices
RECURSIVE OrderedPairs(_, _, _)
OrderedPairs(i, j, n) ==
    IF i > n THEN <<>>
    ELSE IF j > n THEN OrderedPairs(i + 1, 1, n)
    ELSE (IF i # j THEN <<(<<i, j>>)>> ELSE <<>>) \o OrderedPairs(i, j + 1, n)

\* lib.rs State::isomorph.  The u64 is kept as the set of its set bits;
\* enc is encountered_elements, visits the generators and microchips in
\* the order the loops meet them.
RECURSIVE IsomorphFold(_, _, _)
IsomorphFold(visits, enc, bits) ==
    IF visits = <<>> THEN bits
    ELSE LET v == Head(visits)
             known == \E k \in 1..Len(enc) : enc[k] = v.element
             idx == IF known
                    THEN (CHOOSE k \in 1..Len(enc) : enc[k] = v.element) - 1
                    ELSE Len(enc)
             offset == (16 * v.floor) + (IF v.gadget = Generator THEN 8 ELSE 0) + idx
         IN  IsomorphFold(Tail(visits),
                          IF known THEN enc ELSE Append(enc, v.element),
                          bits \cup {offset})

RECURSIVE FloorVisits(_, _)
FloorVisits(s, i) ==
    IF i >= FLOORS THEN <<>>
    ELSE LET ds == Floor_devices(s.floors[i])
         IN  [k \in 1..Len(ds) |->
                 [floor |-> i, gadget |-> ds[k].gadget, element |-> ds[k].element]]
             \o FloorVisits(s, i + 1)

LibState_isomorph(s) == IsomorphFold(FloorVisits(s, 0), <<>>, {})

\* a u64 as the set of the positions of its one bits
U64_BITS == 64

\* n as u64, for a count n
Bits(n) == {b \in 0..30 : (n \div (2 ^ b)) % 2 = 1}

\* x << k on a u64: the bits shifted past the top are lost
Shl(x, k) == {b + k : b \in x} \cap (0..(U64_BITS - 1))

\* the mutant of floor.rs Floor::isomorph: three bits for each count
FloorRs_isomorph_narrow(f) ==
    Shl(Bits(Cardinality(f.generators \cap f.microchips)), 0)
    \cup Shl(Bits(Cardinality(f.microchips \ f.generators)), 3)
    \cup Shl(Bits(Cardinality(f.generators \ f.microchips)), 6)

\* floor.rs Floor::isomorph: pairs | unpaired chips << 4 | unpaired generators << 8
FloorRs_isomorph(f) ==
    Shl(Bits(Cardinality(f.generators \cap f.microchips)), 0)
    \cup Shl(Bits(Cardinality(f.microchips \ f.generators)), 4)
    \cup Shl(Bits(Cardinality(f.generators \ f.microchips)), 8)

\* state.rs State::isomorph: floor idx shifted by idx * 64 / FLOORS, folded with |
StateRs_isomorph(s) ==
    UNION {Shl(FloorRs_isomorph(s.floors[idx]), (idx * U64_BITS) \div FLOORS) :
               idx \in 0..(FLOORS - 1)}

\* what PartialEq and Hash of state.rs State look at
StateRs_key(s) == <<s.elevator, StateRs_isomorph(s)>>

FloorsBelowOccupied(s) == \E i \in 0..(s.elevator - 1) : ~Floor_is_empty(s.floors[i])

\* lib.rs State::next
LibState_next(s, seen) ==
    LET devices == Floor_devices(s.floors[s.elevator])
        n == Len(devices)
        pairs == TupleCombinations(1, 2, n)
        ok(c) == LibState_is_safe(c) /\ LibState_isomorph(c) \notin seen
        two(to) == SelectSeq([k \in 1..Len(pairs) |->
                       MoveDevices(s, <<devices[pairs[k][1]], devices[pairs[k][2]]>>, to)], ok)
        one(to) == SelectSeq([k \in 1..n |-> MoveDevices(s, <<devices[k]>>, to)], ok)
        up == IF s.elevator < FLOORS - 1
              THEN LET took_two_up == two(s.elevator + 1)
                   IN  IF took_two_up # <<>> THEN took_two_up ELSE one(s.elevator + 1)
              ELSE <<>>
        down == IF s.elevator > 0 /\ FloorsBelowOccupied(s)
                THEN LET took_one_down == one(s.elevator - 1)
                     IN  IF took_one_down # <<>> THEN took_one_down ELSE two(s.elevator - 1)
                ELSE <<>>
    IN  up \o down

\* state.rs State::children.  The devices come out of HashSets, in an order
\* that is not specified; ascending is one of the orders.
StateRs_children(s, seen) ==
    LET devices == Floor_devices(s.floors[s.elevator])
        n == Len(devices)
        pairs == OrderedPairs(1, 1, n)
        ok(c) == StateRs_key(c) \notin seen /\ StateRs_is_safe(c)
        two(to) == SelectSeq([k \in 1..Len(pairs) |->
                       MoveDevices(s, <<devices[pairs[k][1]], devices[pairs[k][2]]>>, to)], ok)
        one(to) == SelectSeq([k \in 1..n |-> MoveDevices(s, <<devices[k]>>, to)], ok)
        up == IF s.elevator < FLOORS - 1
              THEN LET moved_pair == two(s.elevator + 1)
                   IN  IF moved_pair # <<>> THEN moved_pair ELSE one(s.elevator + 1)
              ELSE <<>>
        down == IF s.elevator > 0 /\ FloorsBelowOccupied(s)
                THEN LET moved_single == one(s.elevator - 1)
                     IN  IF moved_single # <<>> THEN moved_single ELSE two(s.elevator - 1)
                ELSE <<>>
    IN  up \o down


(***************************************************************************)
(* day11: the search                                                       *)
(***************************************************************************)

AllDevices == {Device(e, g) : e \in Elements, g \in {Generator, Microchip}}

\* State::default() followed by add_device(pl[d], d) for every device d
StateOf(pl) ==
    [elevator |-> 0,
     floors |-> [i \in 0..(FLOORS - 1) |->
                   [generators |-> {e \in Elements : pl[Device(e, Generator)] = i},
                    microchips |-> {e \in Elements : pl[Device(e, Microchip)] = i}]]]

\* tests::example
Example ==
    StateOf([d \in AllDevices |->
               IF d.gadget = Microchip THEN 0
               ELSE IF d.element = Hydrogen THEN 1 ELSE 2])

\* the safety rule of the puzzle: no microchip is on a floor with a
\* generator of another element unless its own generator is there too
SafeFloor(f) == \A m \in f.microchips : m \in f.generators \/ f.generators \ {m} = {}

SafeState(s) == \A i \in 0..(FLOORS - 1) : SafeFloor(s.floors[i])

InitialStates == {s \in {StateOf(pl) : pl \in [AllDevices -> 0..(FLOORS - 1)]} : SafeState(s)}

Enqueue(steps_, states) == [k \in 1..Len(states) |-> [steps |-> steps_, state |-> states[k]]]

DInit ==
    /\ revision \in {"lib", "state"}
    /\ initial \in InitialStates
    /\ queue = <<[steps |-> 0, state |-> initial]>>
    /\ visited = {}
    /\ result = <<>>
    /\ gpc = "loop"
    /\ NoComputer
    /\ NoIsomorph
    /\ NoRules
    /\ NoProcess
    /\ NoDecompress
    /\ NoKey
    /\ NoScreen
    /\ NoPad
    /\ NoScramble
    /\ NoVisited
    /\ NoPair

\* one turn of the while loop of lib.rs goalseek, or its end
Goalseek ==
    /\ UNCHANGED not_dvars
    /\ revision = "lib"
    /\ gpc = "loop"
    /\ UNCHANGED <<revision, initial>>
    /\ IF queue = <<>>
       THEN gpc' = "done" /\ result' = <<>> /\ UNCHANGED <<queue, visited>>
       ELSE LET steps_ == Head(queue).steps
                state == Head(queue).state
            IN  IF State_is_goal(state)
                THEN /\ gpc' = "done"
                     /\ result' = <<steps_>>
                     /\ queue' = Tail(queue)
                     /\ visited' = visited
                ELSE /\ visited' = visited \cup {LibState_isomorph(state)}
                     /\ queue' = Tail(queue)
                            \o Enqueue(steps_ + 1, LibState_next(state, visited'))
                     /\ UNCHANGED <<gpc, result>>

\* the breadth-first loop over state.rs: visited holds the states met so
\* far, compared by elevator and isomorph, and the children come from
\* State::children
Search ==
    /\ UNCHANGED not_dvars
    /\ revision = "state"
    /\ gpc = "loop"
    /\ UNCHANGED <<revision, initial>>
    /\ IF queue = <<>>
       THEN gpc' = "done" /\ result' = <<>> /\ UNCHANGED <<queue, visited>>
       ELSE LET steps_ == Head(queue).steps
                state == Head(queue).state
            IN  IF State_is_goal(state)
                THEN /\ gpc' = "done"
                     /\ result' = <<steps_>>
                     /\ queue' = Tail(queue)
                     /\ visited' = visited
                ELSE LET children == StateRs_children(state, visited \cup {StateRs_key(state)})
                     IN  /\ visited' = visited \cup {StateRs_key(state)}
                                \cup {StateRs_key(children[k]) : k \in 1..Len(children)}
                         /\ queue' = Tail(queue) \o Enqueue(steps_ + 1, children)
                         /\ UNCHANGED <<gpc, result>>

DNext == Goalseek \/ Search

(***************************************************************************)
(* day11: State::isomorph called on its own                                *)
(***************************************************************************)
\* the state with every device of element e replaced by the same gadget of r[e]
Rename(s, r) ==
    [s EXCEPT !.floors =
        [i \in 0..(FLOORS - 1) |->
            [generators |-> {r[e] : e \in s.floors[i].generators},
             microchips |-> {r[e] : e \in s.floors[i].microchips}]]]

\* the elements the renamings move
Moved == {Cobalt, Hydrogen, Lithium, Plutonium}

\* the renamings of the elements that permute Moved and keep the others
Renamings ==
    {[e \in Element |-> IF e \in Moved THEN p[e] ELSE e] : p \in Permutations(Moved)}

\* the renaming that takes every element to the next of the enum
Rotation == [e \in Element |-> (e + 1) % Cardinality(Element)]

\* State::default() followed by add_device for some of the devices of
\* Hydrogen and Lithium: pl[d] = FLOORS leaves d out
TwoElementStates == {StateOf(pl) : pl \in [AllDevices -> 0..FLOORS]}

\* the floors of floor.rs isomorph_tests::exhaustive_floors: every element
\* absent, a lone chip, a lone generator, or a pair
ExhaustiveFloors ==
    {[generators |-> {e \in Element : k[e] \in {"generator", "pair"}},
      microchips |-> {e \in Element : k[e] \in {"chip", "pair"}}] :
         k \in [Element -> {"none", "chip", "generator", "pair"}]}

\* state.rs isomorph_tests::test_floor_deconfliction: State::default() with
\* one floor replaced
SingleFloorStates ==
    {[NoState EXCEPT !.floors[i] = f] : i \in 0..(FLOORS - 1), f \in ExhaustiveFloors}

IsoInit ==
    /\ isofn \in {"lib.rs", "state.rs"}
    /\ \/ /\ subject \in TwoElementStates
          /\ \E r \in Renamings : renamed = Rename(subject, r)
       \/ /\ isofn = "state.rs"
          /\ subject \in SingleFloorStates
          /\ renamed = Rename(subject, Rotation)
    /\ isomorphs = <<>>
    /\ ipc = "call"
    /\ NoComputer
    /\ NoSearch
    /\ NoRules
    /\ NoProcess
    /\ NoDecompress
    /\ NoKey
    /\ NoScreen
    /\ NoPad
    /\ NoScramble
    /\ NoVisited
    /\ NoPair

\* lib.rs State::isomorph, on the state and on the renamed state
LibIsomorph ==
    /\ UNCHANGED not_ivars
    /\ ipc = "call"
    /\ isofn = "lib.rs"
    /\ isomorphs' = <<LibState_isomorph(subject), LibState_isomorph(renamed)>>
    /\ ipc' = "done"
    /\ UNCHANGED <<isofn, subject, renamed>>

\* state.rs State::isomorph, on the state and on the renamed state
StateRsIsomorph ==
    /\ UNCHANGED not_ivars
    /\ ipc = "call"
    /\ isofn = "state.rs"
    /\ isomorphs' = <<StateRs_isomorph(subject), StateRs_isomorph(renamed)>>
    /\ ipc' = "done"
    /\ UNCHANGED <<isofn, subject, renamed>>

IsoNext == LibIsomorph \/ StateRsIsomorph

(***************************************************************************)
(* u32: a value is kept as its two 16-bit halves, <<high half, low half>>  *)
(***************************************************************************)
HALF == 2 ^ 16

U32(n) == <<n \div HALF, n % HALF>>

U32_MAX == <<HALF - 1, HALF - 1>>

U32_lt(a, b) == a[1] < b[1] \/ (a[1] = b[1] /\ a[2] < b[2])

U32_le(a, b) == a = b \/ U32_lt(a, b)

U32_max(a, b) == IF U32_lt(a, b) THEN b ELSE a

\* a + b: the wrapped sum, and whether it overflowed
U32_add(a, b) ==
    LET lo == a[2] + b[2]
        hi == a[1] + b[1] + (lo \div HALF)
    IN  [ovf |-> hi >= HALF, val |-> <<hi % HALF, lo % HALF>>]

\* a - b: the wrapped difference, and whether it overflowed
U32_sub(a, b) ==
    LET lo == a[2] - b[2]
        hi == a[1] - b[1] - (IF lo < 0 THEN 1 ELSE 0)
    IN  [ovf |-> hi < 0, val |-> <<(hi + HALF) % HALF, (lo + HALF) % HALF>>]

\* a.checked_sub(b).unwrap_or_default()
U32_checked_sub_or_default(a, b) == IF U32_lt(a, b) THEN U32(0) ELSE U32_sub(a, b).val

(***************************************************************************)
(* day20                                                                   *)
(***************************************************************************)
Rule(low, high) == [low |-> low, high |-> high]

\* derive(PartialOrd, Ord) of Rule: by low, then by high
Rule_le(r, q) == U32_lt(r.low, q.low) \/ (r.low = q.low /\ U32_le(r.high, q.high))

\* rules.sort_unstable(): equal rules cannot be told apart, so every sort
\* gives the same Vec
RECURSIVE Sorted(_)
Sorted(rs) ==
    IF rs = <<>> THEN <<>>
    ELSE LET k == CHOOSE i \in 1..Len(rs) : \A j \in 1..Len(rs) : Rule_le(rs[i], rs[j])
         IN  <<rs[k]>> \o Sorted([j \in 1..(Len(rs) - 1) |-> IF j < k THEN rs[j] ELSE rs[j + 1]])

\* itertools coalesce with the closure of lines 29-36: prev is the rule held
\* back, rest the rules not yet looked at
RECURSIVE Coalesce(_, _)
Coalesce(prev, rest) ==
    IF rest = <<>> THEN <<prev>>
    ELSE LET next == Head(rest) IN
         IF U32_le(next.low, prev.high)
         THEN Coalesce(Rule(prev.low, U32_max(prev.high, next.high)), Tail(rest))
         ELSE <<prev>> \o Coalesce(next, Tail(rest))

\* the rules as the iterator of ordered_rules_iter_from yields them
ordered_rules_iter_from(rs) ==
    IF rs = <<>> THEN <<>>
    ELSE LET sorted == Sorted(rs) IN Coalesce(Head(sorted), Tail(sorted))

\* results
ReturnedNone == [kind |-> "None", val |-> U32(0)]
ReturnedSome(v) == [kind |-> "Some", val |-> v]
ReturnedCount(v) == [kind |-> "count", val |-> v]
Panicked == [kind |-> "panic", val |-> U32(0)]
NoAnswer == [kind |-> "-", val |-> U32(0)]

\* the while loop of lowest_legal_value from the k-th rule of the iterator;
\* oc = "on" when arithmetic overflow panics
RECURSIVE lowest_loop(_, _, _)
lowest_loop(iter, k, oc) ==
    IF k > Len(iter) THEN ReturnedNone
    ELSE LET prev_high == iter[k].high
             succ == U32_add(prev_high, U32(1))
         IN  IF k = Len(iter)
             THEN IF U32_lt(prev_high, U32_sub(U32_MAX, U32(1)).val)
                  THEN IF succ.ovf /\ oc = "on" THEN Panicked ELSE ReturnedSome(succ.val)
                  ELSE lowest_loop(iter, k + 1, oc)
             ELSE IF succ.ovf /\ oc = "on" THEN Panicked
                  ELSE IF U32_lt(succ.val, iter[k + 1].low)
                       THEN ReturnedSome(succ.val)
                       ELSE lowest_loop(iter, k + 1, oc)

lowest_legal_value(rs, oc) ==
    LET iter == ordered_rules_iter_from(rs) IN
    IF iter # <<>> /\ U32_lt(U32(0), iter[1].low)
    THEN ReturnedSome(U32(0))
    ELSE lowest_loop(iter, 1, oc)

\* RangeBounds<u32>
Included(v) == [bound |-> "Included", v |-> v]
Excluded(v) == [bound |-> "Excluded", v |-> v]
Unbounded == [bound |-> "Unbounded", v |-> U32(0)]

\* a step of arithmetic on the running result c = [panic, val]: the
\* operation r = [ovf, val] panics when it overflows and oc = "on"
Then(c, r, oc) == [panic |-> c.panic \/ (r.ovf /\ oc = "on"), val |-> r.val]

\* the while loop of num_legal_values_in from the k-th rule of the iterator
RECURSIVE count_loop(_, _, _, _, _)
count_loop(iter, k, upper, count, oc) ==
    IF k > Len(iter) \/ count.panic THEN count
    ELSE LET prev_high == iter[k].high
             gap == IF k = Len(iter)
                    THEN Then(count, U32_sub(upper, prev_high), oc)
                    ELSE IF U32_lt(U32(1), U32_checked_sub_or_default(iter[k + 1].low, prev_high))
                         THEN LET d == Then(count, U32_sub(iter[k + 1].low, prev_high), oc)
                              IN  Then(d, U32_sub(d.val, U32(1)), oc)
                         ELSE [panic |-> FALSE, val |-> U32(0)]
         IN  IF gap.panic THEN gap
             ELSE count_loop(iter, k + 1, upper, Then(count, U32_add(count.val, gap.val), oc), oc)

num_legal_values_in(rs, bs, oc) ==
    LET ok == [panic |-> FALSE, val |-> U32(0)]
        lower_bound_inclusive ==
            IF bs.start.bound = "Included" THEN [ok EXCEPT !.val = bs.start.v]
            ELSE IF bs.start.bound = "Excluded" THEN Then(ok, U32_add(bs.start.v, U32(1)), oc)
            ELSE ok
        upper_bound_inclusive ==
            IF bs.end.bound = "Included" THEN [ok EXCEPT !.val = bs.end.v]
            ELSE IF bs.end.bound = "Excluded" THEN Then(ok, U32_sub(bs.end.v, U32(1)), oc)
            ELSE [ok EXCEPT !.val = U32_MAX]
        iter == ordered_rules_iter_from(rs)
        first == IF iter # <<>>
                    /\ U32_lt(U32(0), U32_checked_sub_or_default(iter[1].low, lower_bound_inclusive.val))
                 THEN Then(ok, U32_add(U32(0), iter[1].low), oc)
                 ELSE ok
        count == count_loop(iter, 1, upper_bound_inclusive.val, first, oc)
    IN  IF lower_bound_inclusive.panic \/ upper_bound_inclusive.panic \/ count.panic
        THEN Panicked
        ELSE ReturnedCount(count.val)

\* the values the rules of a test are made of: a few small ones and, for
\* lowest_legal_value, the two largest
SmallValues == 0..3

LargeValues == {U32_sub(U32_MAX, U32(1)).val, U32_MAX}

\* the rules over a set of values; low <= high as line 25 asserts
RulesOver(values) == {r \in [low : values, high : values] : U32_le(r.low, r.high)}

RuleLists(values) == UNION {[1..n -> RulesOver(values)] : n \in 0..MaxRules}

\* a..b, a..=b, ..b and ..=b over the small values
BoundsOver(values) ==
    [start : {Unbounded} \cup {Included(v) : v \in values},
     end : {Included(v) : v \in values} \cup {Excluded(v) : v \in values}]

NoBounds == [start |-> Unbounded, end |-> Unbounded]

RInit ==
    /\ \/ /\ rfn = "lowest_legal_value"
          /\ rules \in RuleLists({U32(n) : n \in SmallValues} \cup LargeValues)
          /\ bounds = NoBounds
       \/ /\ rfn = "num_legal_values_in"
          /\ rules \in RuleLists({U32(n) : n \in SmallValues})
          /\ bounds \in BoundsOver({U32(n) : n \in SmallValues})
    /\ answer = NoAnswer
    /\ rpc = "call"
    /\ NoComputer
    /\ NoSearch
    /\ NoIsomorph
    /\ NoProcess
    /\ NoDecompress
    /\ NoKey
    /\ NoScreen
    /\ NoPad
    /\ NoScramble
    /\ NoVisited
    /\ NoPair

LowestLegalValue ==
    /\ UNCHANGED not_rvars
    /\ rpc = "call"
    /\ rfn = "lowest_legal_value"
    /\ \E oc \in {"on", "off"} :
         /\ answer' = lowest_legal_value(rules, oc)
         /\ rpc' = IF answer' = Panicked THEN "panicked" ELSE "returned"
    /\ UNCHANGED <<rfn, rules, bounds>>

NumLegalValuesIn ==
    /\ UNCHANGED not_rvars
    /\ rpc = "call"
    /\ rfn = "num_legal_values_in"
    /\ \E oc \in {"on", "off"} :
         /\ answer' = num_legal_values_in(rules, bounds, oc)
         /\ rpc' = IF answer' = Panicked THEN "panicked" ELSE "returned"
    /\ UNCHANGED <<rfn, rules, bounds>>

RNext == LowestLegalValue \/ NumLegalValuesIn

(***************************************************************************)
(* day10                                                                   *)
(***************************************************************************)
\* Option<Value>: <<>> is None, <<v>> is Some(v)
NewBot(id) == [id |-> id, low |-> <<>>, high |-> <<>>]

Bot_is_full(bot) == bot.low # <<>> /\ bot.high # <<>>

\* the mutant of Bot::add_value: the second value becomes high without a comparison
add_value_unordered(bot, v) ==
    IF bot.low # <<>>
    THEN [bot EXCEPT !.high = <<v>>]
    ELSE [bot EXCEPT !.low = <<v>>]

\* Bot::add_value: the bot after the call; the call returns Ok(()) on every path
add_value(bot, v) ==
    IF bot.low # <<>>
    THEN LET low == bot.low[1] IN
         [bot EXCEPT !.low = <<IF low > v THEN v ELSE low>>,
                     !.high = <<IF low > v THEN low ELSE v>>]
    ELSE [bot EXCEPT !.low = <<v>>]

add_value_result(bot, v) == "Ok"

BotReceiver(id) == [receiver |-> "Bot", id |-> id]
OutputReceiver(id) == [receiver |-> "Output", id |-> id]
NoReceiver == [receiver |-> "-", id |-> 0]

Get(bot_id, v) ==
    [op |-> "Get", bot_id |-> bot_id, value |-> v,
     low_dest |-> NoReceiver, high_dest |-> NoReceiver]

Transfer(bot_id, low_dest, high_dest) ==
    [op |-> "Transfer", bot_id |-> bot_id, value |-> 0,
     low_dest |-> low_dest, high_dest |-> high_dest]

\* a map with one entry set
Insert(map, key, v) == [k \in DOMAIN map \cup {key} |-> IF k = key THEN v ELSE map[k]]

\* bots.entry(id).or_insert_with(|| Bot::new(id)).add_value(value) on the
\* maps m = [bots, outputs, calls, result]; calls collects the calls of add_value
AddToBot(m, id, v) ==
    LET bot == IF id \in DOMAIN m.bots THEN m.bots[id] ELSE NewBot(id)
    IN  [m EXCEPT !.bots = Insert(m.bots, id, add_value(bot, v)),
                  !.calls = Append(m.calls, [bot |-> bot, value |-> v,
                                             result |-> add_value_result(bot, v)]),
                  !.result = add_value_result(bot, v)]

\* the closure give_to_receiver of process
give_to_receiver(m, v, dest) ==
    LET given == [m EXCEPT !.gives = Append(m.gives, [value |-> v, receiver |-> dest])]
    IN  IF dest.receiver = "Bot"
        THEN AddToBot(given, dest.id, v)
        ELSE IF dest.id \in DOMAIN m.outputs
             THEN IF m.outputs[dest.id] # v
                  THEN [given EXCEPT !.result = "Err"]
                  ELSE [given EXCEPT !.result = "Ok"]
             ELSE [given EXCEPT !.outputs = Insert(m.outputs, dest.id, v),
                                !.result = "Ok"]

\* the maps at the start of a turn of the loop
Maps == [bots |-> bots, outputs |-> outputs, calls |-> <<>>, gives |-> <<>>, result |-> "Ok"]

\* tests::EXAMPLE_INSTRUCTIONS
EXAMPLE_INSTRUCTIONS ==
    <<Get(2, 5),
      Transfer(2, BotReceiver(1), BotReceiver(0)),
      Get(1, 3),
      Transfer(1, OutputReceiver(1), BotReceiver(0)),
      Transfer(0, OutputReceiver(2), OutputReceiver(0)),
      Get(2, 2)>>

\* the instructions the other inputs are made of
Ids == {0, 1}
Values == {1, 2}
Receivers == {BotReceiver(0), BotReceiver(1), OutputReceiver(0)}

InstructionSet ==
    {Get(b, v) : b \in Ids, v \in Values}
    \cup {Transfer(b, l, h) : b \in Ids, l \in Receivers, h \in Receivers}

NoTurn ==
    [turns |-> 0, instruction |-> Get(0, 0), bots |-> <<>>, outputs |-> <<>>,
     instructions |-> <<>>, full |-> FALSE, calls |-> <<>>, gives |-> <<>>]

\* what a turn of the loop started from, for the instruction it popped
Turn(instruction, m) ==
    [turns |-> 1, instruction |-> instruction, bots |-> bots, outputs |-> outputs,
     instructions |-> instructions,
     full |-> instruction.bot_id \in DOMAIN bots /\ Bot_is_full(bots[instruction.bot_id]),
     calls |-> m.calls, gives |-> m.gives]

PInit ==
    /\ input \in {EXAMPLE_INSTRUCTIONS}
                 \cup UNION {[1..n -> InstructionSet] : n \in 0..MaxInstructions}
    /\ bots = <<>>
    /\ outputs = <<>>
    /\ instructions = input
    /\ ppc = "loop"
    /\ transfers = <<>>
    /\ plast = NoTurn
    /\ NoComputer
    /\ NoSearch
    /\ NoIsomorph
    /\ NoRules
    /\ NoDecompress
    /\ NoKey
    /\ NoScreen
    /\ NoPad
    /\ NoScramble
    /\ NoVisited
    /\ NoPair

\* a turn of the while loop that pops a Get: lines 149-152
ProcessGet ==
    /\ UNCHANGED not_pvars
    /\ ppc = "loop"
    /\ instructions # <<>>
    /\ Head(instructions).op = "Get"
    /\ LET instruction == Head(instructions)
           m == AddToBot(Maps, instruction.bot_id, instruction.value)
       IN  /\ bots' = m.bots
           /\ instructions' = Tail(instructions)
           /\ ppc' = IF m.result = "Err" THEN "Err" ELSE "loop"
           /\ plast' = Turn(instruction, m)
    /\ UNCHANGED <<input, outputs, transfers>>

\* a turn of the while loop that pops a Transfer: lines 153-193
ProcessTransfer ==
    /\ UNCHANGED not_pvars
    /\ ppc = "loop"
    /\ instructions # <<>>
    /\ Head(instructions).op = "Transfer"
    /\ LET instruction == Head(instructions)
           bot_id == instruction.bot_id
       IN  IF bot_id \in DOMAIN bots /\ Bot_is_full(bots[bot_id])
           THEN LET low == bots[bot_id].low[1]
                    high == bots[bot_id].high[1]
                    first == give_to_receiver(Maps, low, instruction.low_dest)
                    second == IF first.result = "Err" THEN first
                              ELSE give_to_receiver(first, high, instruction.high_dest)
                IN  /\ bots' = second.bots
                    /\ outputs' = second.outputs
                    /\ instructions' = Tail(instructions)
                    /\ ppc' = IF second.result = "Err" THEN "Err" ELSE "loop"
                    /\ transfers' = Append(transfers, instruction)
                    /\ plast' = Turn(instruction, second)
           ELSE /\ instructions' =
                      Append(Tail(instructions),
                             Transfer(bot_id, instruction.low_dest, instruction.high_dest))
                /\ plast' = Turn(instruction, Maps)
                /\ UNCHANGED <<bots, outputs, ppc, transfers>>
    /\ UNCHANGED input

\* the queue is empty: line 197
ProcessReturn ==
    /\ UNCHANGED not_pvars
    /\ ppc = "loop"
    /\ instructions = <<>>
    /\ ppc' = "Ok"
    /\ UNCHANGED <<input, bots, outputs, instructions, transfers, plast>>

PNext == ProcessGet \/ ProcessTransfer \/ ProcessReturn

(***************************************************************************)
(* usize, u64 and BigUint: a number is kept as its base-256 digits, the    *)
(* least significant first and no zero at the end; <<>> is 0               *)
(***************************************************************************)
BASE == 2 ^ 8

\* the digits a u64 (and a usize of a 64-bit target) has room for
U64_DIGITS == 8

RECURSIVE Trim(_)
Trim(a) ==
    IF a = <<>> \/ a[Len(a)] # 0 THEN a ELSE Trim(SubSeq(a, 1, Len(a) - 1))

\* a * m + c for a number a and small m, c
RECURSIVE MulSmall(_, _, _)
MulSmall(a, m, c) ==
    IF a = <<>> THEN (IF c = 0 THEN <<>> ELSE <<c % BASE>> \o MulSmall(<<>>, m, c \div BASE))
    ELSE LET p == Head(a) * m + c
         IN  <<p % BASE>> \o MulSmall(Tail(a), m, p \div BASE)

Big(n) == Trim(MulSmall(<<>>, 0, n))

\* a + b + c, c a carry
RECURSIVE AddCarry(_, _, _)
AddCarry(a, b, c) ==
    IF a = <<>> /\ b = <<>> THEN (IF c = 0 THEN <<>> ELSE <<c>>)
    ELSE LET x == IF a = <<>> THEN 0 ELSE Head(a)
             y == IF b = <<>> THEN 0 ELSE Head(b)
             s == x + y + c
         IN  <<s % BASE>> \o AddCarry(IF a = <<>> THEN a ELSE Tail(a),
                                      IF b = <<>> THEN b ELSE Tail(b), s \div BASE)

BigAdd(a, b) == Trim(AddCarry(a, b, 0))

RECURSIVE BigMul(_, _)
BigMul(a, b) ==
    IF b = <<>> THEN <<>>
    ELSE Trim(AddCarry(Trim(MulSmall(a, Head(b), 0)), <<0>> \o BigMul(a, Tail(b)), 0))

\* a as a number of TLC, for a number that is small
RECURSIVE Small(_)
Small(a) == IF a = <<>> THEN 0 ELSE Head(a) + BASE * Small(Tail(a))

\* a * b on u64: the wrapped product, and whether it overflowed
U64_mul(a, b) ==
    LET p == BigMul(a, b)
    IN  [ovf |-> Len(p) > U64_DIGITS,
         val |-> Trim(SubSeq(p, 1, IF Len(p) > U64_DIGITS THEN U64_DIGITS ELSE Len(p)))]

(***************************************************************************)
(* day09                                                                   *)
(***************************************************************************)
Digits == {"0", "1", "2", "3", "4", "5", "6", "7", "8", "9"}

DigitValue(c) == CHOOSE d \in 0..9 : <<"0", "1", "2", "3", "4", "5", "6", "7", "8", "9">>[d + 1] = c

\* str.parse::<usize>() for a str made of the characters of the inputs:
\* Err for the empty str, a character that is no digit, or a number past usize
RECURSIVE ParseDigits(_, _)
ParseDigits(str, acc) ==
    IF str = <<>> THEN acc
    ELSE ParseDigits(Tail(str), Trim(MulSmall(acc, 10, DigitValue(Head(str)))))

parse_usize(str) ==
    IF str = <<>> \/ \E k \in 1..Len(str) : str[k] \notin Digits
    THEN [ok |-> FALSE, n |-> <<>>]
    ELSE LET n == ParseDigits(str, <<>>)
         IN  [ok |-> Len(n) <= U64_DIGITS, n |-> n]

\* State
Normal == [tag |-> "Normal", length |-> 0, count |-> 0, wip |-> <<>>]
ParsingMarkerLength(wip) == [tag |-> "ParsingMarkerLength", length |-> 0, count |-> 0, wip |-> wip]
ParsingMarkerCount(length, wip) ==
    [tag |-> "ParsingMarkerCount", length |-> length, count |-> 0, wip |-> wip]
ReadingMarked(length, count, wip) ==
    [tag |-> "ReadingMarked", length |-> length, count |-> count, wip |-> wip]
Error(msg) == [tag |-> "Error", length |-> 0, count |-> 0, wip |-> <<msg>>]

\* the mutant of the repetition: one copy, whatever the count
Repeat_once(wip, count) == wip

\* count copies of wip, one after the other
RECURSIVE Repeat(_, _)
Repeat(wip, count) == IF count = 0 THEN <<>> ELSE wip \o Repeat(wip, count - 1)

\* handle_char in State::Normal
handle_normal(ch) ==
    IF ch # "("
    THEN [state |-> Normal, out |-> <<<<ch>>>>]
    ELSE [state |-> ParsingMarkerLength(<<>>), out |-> <<>>]

\* handle_char: the next state and the optional output; out is <<>> for
\* None and <<str>> for Some(str)
handle_char(st, ch) ==
    IF st.tag = "Normal" THEN handle_normal(ch)
    ELSE IF st.tag = "ParsingMarkerLength"
    THEN IF ch # "x"
         THEN [state |-> ParsingMarkerLength(Append(st.wip, ch)), out |-> <<>>]
         ELSE LET length == parse_usize(st.wip) IN
              IF length.ok
              THEN [state |-> ParsingMarkerCount(Small(length.n), <<>>), out |-> <<>>]
              ELSE [state |-> Error("Could not parse marker length"), out |-> <<<<ch>>>>]
    ELSE IF st.tag = "ParsingMarkerCount"
    THEN IF ch # ")"
         THEN [state |-> ParsingMarkerCount(st.length, Append(st.wip, ch)), out |-> <<>>]
         ELSE LET count == parse_usize(st.wip) IN
              IF count.ok
              THEN [state |-> ReadingMarked(st.length, Small(count.n), <<>>), out |-> <<>>]
              ELSE [state |-> Error("Could not parse marker count"), out |-> <<>>]
    ELSE IF st.tag = "ReadingMarked"
    THEN IF st.length > 0
         THEN [state |-> ReadingMarked(st.length - 1, st.count, Append(st.wip, ch)), out |-> <<>>]
         ELSE LET after == handle_normal(ch)
              IN  [state |-> after.state,
                   out |-> <<Repeat(st.wip, st.count)
                             \o (IF after.out = <<>> THEN <<>> ELSE after.out[1])>>]
    ELSE [state |-> st, out |-> <<<<ch>>>>]

\* results
Running == [kind |-> "-", error |-> "-", value |-> <<>>]
Ok(v) == [kind |-> "Ok", error |-> "-", value |-> v]
Err(e) == [kind |-> "Err", error |-> e, value |-> <<>>]
Panic == [kind |-> "panic", error |-> "-", value |-> <<>>]

\* the for loop of decompress takes one character: lines 134-142
DecompressChar ==
    /\ UNCHANGED not_zvars
    /\ zfn = "decompress"
    /\ zret = Running
    /\ pos < Len(text)
    /\ LET result_tuple == handle_char(zstate, text[pos + 1])
       IN  /\ zstate' = result_tuple.state
           /\ pos' = pos + 1
           /\ IF result_tuple.state.tag = "Error"
              THEN /\ zret' = Err("DecompressionError")
                   /\ UNCHANGED output
              ELSE /\ output' = output \o (IF result_tuple.out = <<>> THEN <<>>
                                           ELSE result_tuple.out[1])
                   /\ UNCHANGED zret
    /\ UNCHANGED <<zfn, text, total>>

\* the input is used up: lines 145-157
DecompressEnd ==
    /\ UNCHANGED not_zvars
    /\ zfn = "decompress"
    /\ zret = Running
    /\ pos = Len(text)
    /\ IF zstate.tag = "ReadingMarked" /\ zstate.length = 0
       THEN /\ output' = output \o Repeat(zstate.wip, zstate.count)
            /\ zret' = Ok(output')
       ELSE IF zstate.tag = "Normal"
       THEN /\ zret' = Ok(output)
            /\ UNCHANGED output
       ELSE /\ zret' = Err("UnexpectedState")
            /\ UNCHANGED output
    /\ UNCHANGED <<zfn, text, pos, zstate, total>>

\* a < b and a <= b for numbers
RECURSIVE BigLt(_, _)
BigLt(a, b) ==
    IF Len(a) # Len(b) THEN Len(a) < Len(b)
    ELSE IF a = <<>> THEN FALSE
    ELSE IF a[Len(a)] # b[Len(b)] THEN a[Len(a)] < b[Len(b)]
    ELSE BigLt(SubSeq(a, 1, Len(a) - 1), SubSeq(b, 1, Len(b) - 1))

BigLe(a, b) == a = b \/ BigLt(a, b)

\* the index of the first character c of the text at or after index p, or
\* the length of the text when there is none
RECURSIVE Find(_, _, _)
Find(txt, p, c) ==
    IF p >= Len(txt) THEN Len(txt)
    ELSE IF txt[p + 1] = c THEN p
    ELSE Find(txt, p + 1, c)

\* parse_marker on the iterator whose next character has index p; next is
\* the index of the character the iterator yields after the call
parse_marker(txt, p) ==
    LET x == Find(txt, p, "x")
        after_x == IF x < Len(txt) THEN x + 1 ELSE x
        close == Find(txt, after_x, ")")
        length_str == SubSeq(txt, p + 1, x)
        count_str == SubSeq(txt, after_x + 1, close)
        length == parse_usize(length_str)
        count == parse_usize(count_str)
    IN  [panic |-> count_str = <<>>,
         ok |-> length.ok /\ count.ok,
         index |-> close,
         length |-> length.n,
         count |-> count.n,
         next |-> IF close < Len(txt) THEN close + 1 ELSE close]

\* the product of the multiplicands as u64, folded from 1
RECURSIVE Product(_, _)
Product(ms, acc) ==
    IF ms = <<>> THEN acc
    ELSE LET p == U64_mul(acc.val, ms[1].multiplicand)
         IN  Product(Tail(ms), [ovf |-> acc.ovf \/ p.ovf, val |-> p.val])

\* the while loop of count_decompressed_v2 from the character of index
\* index; oc = "on" when arithmetic overflow panics
RECURSIVE count_turns(_, _, _, _, _)
count_turns(txt, index, ms, sum, oc) ==
    IF index >= Len(txt) THEN Ok(sum)
    ELSE LET ch == txt[index + 1]
             retained == SelectSeq(ms, LAMBDA m : BigLe(Big(index), m.until))
         IN  IF ch = "("
             THEN LET marker == parse_marker(txt, index + 1)
                      until == AddCarry(Big(marker.index), marker.length, 0)
                  IN  IF marker.panic THEN Panic
                      ELSE IF ~marker.ok THEN Err("ParseMarker")
                      ELSE IF Len(Trim(until)) > U64_DIGITS /\ oc = "on" THEN Panic
                      ELSE count_turns(txt, marker.next,
                               Append(retained,
                                      [until |-> Trim(SubSeq(Trim(until), 1,
                                                   IF Len(Trim(until)) > U64_DIGITS
                                                   THEN U64_DIGITS ELSE Len(Trim(until)))),
                                       multiplicand |-> marker.count]),
                               sum, oc)
             ELSE LET multiplicand == Product(retained, [ovf |-> FALSE, val |-> Big(1)])
                  IN  IF multiplicand.ovf /\ oc = "on" THEN Panic
                      ELSE count_turns(txt, index + 1, retained,
                                       BigAdd(sum, multiplicand.val), oc)

count_decompressed_v2(txt, oc) == count_turns(txt, 0, <<>>, <<>>, oc)

\* one call of count_decompressed_v2, in a build with or without overflow checks
CountDecompressedV2 ==
    /\ UNCHANGED not_zvars
    /\ zfn = "count_decompressed_v2"
    /\ zret = Running
    /\ \E oc \in {"on", "off"} : zret' = count_decompressed_v2(text, oc)
    /\ pos' = Len(text)
    /\ total' = IF zret'.kind = "Ok" THEN zret'.value ELSE total
    /\ UNCHANGED <<zfn, text, zstate, output>>

\* tests::get_examples and tests::test_count_v2
EXAMPLE_A1x5BC == <<"A", "(", "1", "x", "5", ")", "B", "C">>
EXAMPLE_6x1_1x3A == <<"(", "6", "x", "1", ")", "(", "1", "x", "3", ")", "A">>
EXAMPLE_X8x2_3x3ABCY ==
    <<"X", "(", "8", "x", "2", ")", "(", "3", "x", "3", ")", "A", "B", "C", "Y">>
EXAMPLE_NESTED ==
    <<"(", "2", "7", "x", "1", "2", ")", "(", "2", "0", "x", "1", "2", ")",
      "(", "1", "3", "x", "1", "4", ")", "(", "7", "x", "1", "0", ")",
      "(", "1", "x", "1", "2", ")", "A">>

\* the pieces the other inputs are put together from: single characters
\* and whole markers
Marker(length_str, count_str) == <<"(">> \o length_str \o <<"x">> \o count_str \o <<")">>

SmallPieces ==
    {<<"A">>, <<"x">>, <<"(">>, <<")">>, <<"2">>,
     Marker(<<"1">>, <<"2">>), Marker(<<"2">>, <<"3">>), Marker(<<"6">>, <<"1">>),
     Marker(<<"0">>, <<"2">>), Marker(<<"1">>, <<"0">>)}

\* 2^32, a count two of which overflow a u64 when multiplied
TWO_32 == <<"4", "2", "9", "4", "9", "6", "7", "2", "9", "6">>

LargePieces == {Marker(<<"1">>, TWO_32), Marker(<<"1", "5">>, TWO_32)}

RECURSIVE Concat(_)
Concat(ps) == IF ps = <<>> THEN <<>> ELSE Head(ps) \o Concat(Tail(ps))

Texts(pieces) == {Concat(ps) : ps \in UNION {[1..n -> pieces] : n \in 0..MaxPieces}}

ZInit ==
    /\ \/ /\ zfn = "decompress"
          /\ text \in Texts(SmallPieces)
                      \cup {EXAMPLE_A1x5BC, EXAMPLE_6x1_1x3A, EXAMPLE_X8x2_3x3ABCY}
       \/ /\ zfn = "count_decompressed_v2"
          /\ text \in Texts(SmallPieces \cup LargePieces)
                      \cup {EXAMPLE_X8x2_3x3ABCY, EXAMPLE_NESTED}
    /\ pos = 0
    /\ zstate = Normal
    /\ output = <<>>
    /\ total = <<>>
    /\ zret = Running
    /\ NoComputer
    /\ NoSearch
    /\ NoIsomorph
    /\ NoRules
    /\ NoProcess
    /\ NoKey
    /\ NoScreen
    /\ NoPad
    /\ NoScramble
    /\ NoVisited
    /\ NoPair

ZNext == DecompressChar \/ DecompressEnd \/ CountDecompressedV2

(***************************************************************************)
(* day02: the keypads, Key::shift and decode_on                            *)
(***************************************************************************)
\* Instruction::from_char; "-" is None
from_char(ch) ==
    CASE ch \in {"u", "U"} -> "Up"
      [] ch \in {"d", "D"} -> "Down"
      [] ch \in {"l", "L"} -> "Left"
      [] ch \in {"r", "R"} -> "Right"
      [] OTHER -> "-"

\* Instruction::from_str on a line without white space: None, here <<"-">>, when
\* a character is no instruction
from_str(s) ==
    IF \E i \in 1..Len(s) : from_char(s[i]) = "-" THEN <<"-">>
    ELSE [i \in 1..Len(s) |-> from_char(s[i])]

\* a cell without a button
Blank == "."

KEYPAD_ORTHO ==
    << <<"1", "2", "3">>,
       <<"4", "5", "6">>,
       <<"7", "8", "9">> >>

KEYPAD_DIAG ==
    << <<Blank, Blank, "1", Blank, Blank>>,
       <<Blank, "2", "3", "4", Blank>>,
       <<"5", "6", "7", "8", "9">>,
       <<Blank, "A", "B", "C", Blank>>,
       <<Blank, Blank, "D", Blank, Blank>> >>

\* pad[y][x] with the indices of the code, from 0
Cell(pad, x, y) == pad[y + 1][x + 1]

\* Key::center_on: the first cell, row by row, that holds the key
center_on(ch, pad) ==
    LET cells == {c \in [x : 0..(Len(pad[1]) - 1), y : 0..(Len(pad) - 1)] :
                      Cell(pad, c.x, c.y) = ch}
    IN  IF cells = {} THEN [found |-> FALSE, key |-> [x |-> 0, y |-> 0]]
        ELSE [found |-> TRUE,
              key |-> CHOOSE c \in cells :
                          \A d \in cells : c.y < d.y \/ (c.y = d.y /\ c.x <= d.x)]

\* the mutant of Key::shift: Up and Left take a blank cell for a button
shift_onto_blank(k, pad, inst) ==
    CASE inst = "Up" -> IF k.y > 0 THEN [k EXCEPT !.y = k.y - 1] ELSE k
      [] inst = "Down" ->
            IF k.y < Len(pad) - 1 /\ Cell(pad, k.x, k.y + 1) # Blank
            THEN [k EXCEPT !.y = k.y + 1] ELSE k
      [] inst = "Left" -> IF k.x > 0 THEN [k EXCEPT !.x = k.x - 1] ELSE k
      [] inst = "Right" ->
            IF k.x < Len(pad[k.y + 1]) - 1 /\ Cell(pad, k.x + 1, k.y) # Blank
            THEN [k EXCEPT !.x = k.x + 1] ELSE k

\* Key::shift
shift(k, pad, inst) ==
    CASE inst = "Up" ->
            IF k.y > 0 /\ Cell(pad, k.x, k.y - 1) # Blank
            THEN [k EXCEPT !.y = k.y - 1] ELSE k
      [] inst = "Down" ->
            IF k.y < Len(pad) - 1 /\ Cell(pad, k.x, k.y + 1) # Blank
            THEN [k EXCEPT !.y = k.y + 1] ELSE k
      [] inst = "Left" ->
            IF k.x > 0 /\ Cell(pad, k.x - 1, k.y) # Blank
            THEN [k EXCEPT !.x = k.x - 1] ELSE k
      [] inst = "Right" ->
            IF k.x < Len(pad[k.y + 1]) - 1 /\ Cell(pad, k.x + 1, k.y) # Blank
            THEN [k EXCEPT !.x = k.x + 1] ELSE k

\* Key::char: the expect panics on a blank cell
char_panics(k, pad) == Cell(pad, k.x, k.y) = Blank

\* tests::EXAMPLE
EXAMPLE_LINES ==
    << <<"U", "L", "L">>,
       <<"R", "R", "D", "D", "D">>,
       <<"L", "U", "R", "D", "L">>,
       <<"U", "U", "U", "U", "D">> >>

\* the lines of the inputs: up to two characters, of both cases, one of them
\* no instruction
LineChars == {"U", "D", "L", "R", "u", "x"}
Lines == UNION {[1..n -> LineChars] : n \in 0..2}
Readers == UNION {[1..n -> Lines] : n \in 0..MaxLines}

NoShift == [inst |-> "-", from |-> [x |-> 0, y |-> 0]]

\* a Key centred on '5' that is shifted for ever, or a call of decode_on
KInit ==
    /\ keypad \in {KEYPAD_ORTHO, KEYPAD_DIAG}
    /\ kkey = center_on("5", keypad).key
    /\ \/ /\ kfn = "shift_many"
          /\ klines = <<>>
          /\ kpc = "shift"
       \/ /\ kfn = "decode_on"
          /\ klines \in Readers \cup {EXAMPLE_LINES}
          /\ kpc = "line"
    /\ kidx = 0
    /\ insts = <<>>
    /\ code = <<>>
    /\ kshift = NoShift
    /\ kret = Running
    /\ NoComputer
    /\ NoSearch
    /\ NoIsomorph
    /\ NoRules
    /\ NoProcess
    /\ NoDecompress
    /\ NoScreen
    /\ NoPad
    /\ NoScramble
    /\ NoVisited
    /\ NoPair

\* one call of Key::shift with any instruction
Shift ==
    /\ UNCHANGED not_kvars
    /\ kfn = "shift_many"
    /\ \E inst \in {"Up", "Down", "Left", "Right"} :
          /\ kkey' = shift(kkey, keypad, inst)
          /\ kshift' = [inst |-> inst, from |-> kkey]
    /\ UNCHANGED <<kfn, keypad, klines, kidx, insts, kpc, code, kret>>

\* decode_on takes the next line: an unknown instruction ends the call, the end
\* of the reader returns out
DecodeLine ==
    /\ UNCHANGED not_kvars
    /\ kfn = "decode_on"
    /\ kret = Running
    /\ kpc = "line"
    /\ IF kidx = Len(klines)
       THEN /\ kret' = Ok(code)
            /\ UNCHANGED <<kidx, insts, kpc>>
       ELSE IF from_str(klines[kidx + 1]) = <<"-">>
       THEN /\ kret' = Err("UnknownInstruction")
            /\ UNCHANGED <<kidx, insts, kpc>>
       ELSE /\ insts' = from_str(klines[kidx + 1])
            /\ kidx' = kidx + 1
            /\ kpc' = "shift"
            /\ UNCHANGED kret
    /\ UNCHANGED <<kfn, keypad, kkey, klines, code, kshift>>

\* shift_many applies the next instruction of the line
DecodeShift ==
    /\ UNCHANGED not_kvars
    /\ kfn = "decode_on"
    /\ kret = Running
    /\ kpc = "shift"
    /\ insts # <<>>
    /\ kkey' = shift(kkey, keypad, Head(insts))
    /\ kshift' = [inst |-> Head(insts), from |-> kkey]
    /\ insts' = Tail(insts)
    /\ UNCHANGED <<kfn, keypad, klines, kidx, kpc, code, kret>>

\* out.push(key.char()) at the end of the line
DecodePush ==
    /\ UNCHANGED not_kvars
    /\ kfn = "decode_on"
    /\ kret = Running
    /\ kpc = "shift"
    /\ insts = <<>>
    /\ IF char_panics(kkey, keypad)
       THEN /\ kret' = Panic
            /\ UNCHANGED <<code, kpc>>
       ELSE /\ code' = Append(code, Cell(keypad, kkey.x, kkey.y))
            /\ kpc' = "line"
            /\ UNCHANGED kret
    /\ UNCHANGED <<kfn, keypad, kkey, klines, kidx, insts, kshift>>

KNext ==
    \/ Shift
    \/ DecodeLine
    \/ DecodeShift
    \/ DecodePush

(***************************************************************************)
(* day08: Screen                                                           *)
(***************************************************************************)
Point(x, y) == [x |-> x, y |-> y]

\* Instruction
Rect(w, h) == [op |-> "Rect", a |-> w, b |-> h]
RotateRow(y, n) == [op |-> "RotateRow", a |-> y, b |-> n]
RotateCol(x, n) == [op |-> "RotateCol", a |-> x, b |-> n]
NoInstruction == [op |-> "-", a |-> 0, b |-> 0]

\* Map::project: the points from init on, in steps of (dx, dy), that lie in a
\* map of the size sz
project(sz, init, dx, dy) ==
    LET n == IF dx = 1 THEN sz.width - init.x ELSE sz.height - init.y
    IN  [i \in 1..n |-> Point(init.x + (i - 1) * dx, init.y + (i - 1) * dy)]

\* VecDeque::rotate_left and rotate_right panic when n is greater than the length
rotate_panics(q, n) == n > Len(q)

\* VecDeque::rotate_left: the item of index n becomes the first
rotate_left(q, n) == [i \in 1..Len(q) |-> q[((i - 1 + n) % Len(q)) + 1]]

\* VecDeque::rotate_right: the first item becomes the item of index n
rotate_right(q, n) == [i \in 1..Len(q) |-> q[((i - 1 + Len(q) - n) % Len(q)) + 1]]

\* the Map with the values of the queue written at the points
Written(scr, points, q) ==
    (scr \ {points[i] : i \in 1..Len(points)}) \cup {points[i] : i \in {j \in 1..Len(points) : q[j]}}

\* Screen::rect, for a rectangle that fits the screen
rect(scr, sz, w, h) ==
    scr \cup {Point(x, y) : x \in 0..(w - 1), y \in (sz.height - h)..(sz.height - 1)}

\* Screen::rotate_col
rotate_col(scr, sz, x, n) ==
    LET points == project(sz, Point(x, 0), 0, 1)
        col == [i \in 1..Len(points) |-> points[i] \in scr]
    IN  Written(scr, points, rotate_left(col, n))

\* Screen::rotate_row
rotate_row(scr, sz, y, n) ==
    LET points == project(sz, Point(0, sz.height - y - 1), 1, 0)
        row == [i \in 1..Len(points) |-> points[i] \in scr]
    IN  Written(scr, points, rotate_right(row, n))

\* whether Screen::apply panics
apply_panics(scr, sz, instruction) ==
    CASE instruction.op = "Rect" -> FALSE
      [] instruction.op = "RotateCol" -> rotate_panics(project(sz, Point(instruction.a, 0), 0, 1), instruction.b)
      [] instruction.op = "RotateRow" ->
            rotate_panics(project(sz, Point(0, sz.height - instruction.a - 1), 1, 0), instruction.b)

\* Screen::apply
apply(scr, sz, instruction) ==
    CASE instruction.op = "Rect" -> rect(scr, sz, instruction.a, instruction.b)
      [] instruction.op = "RotateCol" -> rotate_col(scr, sz, instruction.a, instruction.b)
      [] instruction.op = "RotateRow" -> rotate_row(scr, sz, instruction.a, instruction.b)

\* tests::EXAMPLE, parsed as tests::test_parse_instructions expects
EXAMPLE == <<Rect(3, 2), RotateCol(1, 1), RotateRow(0, 4), RotateCol(1, 1)>>

\* the Screen of tests::test_example and a smaller one
EXAMPLE_SIZE == [width |-> 7, height |-> 3]
SMALL_SIZE == [width |-> 3, height |-> 2]

\* the instructions applied to a screen of the size sz: rectangles that fit,
\* rows and columns of the screen, rotations by 0 to MaxBy
ScreenInstructions(sz) ==
    {Rect(w, h) : w \in 0..sz.width, h \in 0..sz.height}
    \cup {RotateRow(y, n) : y \in 0..(sz.height - 1), n \in 0..MaxBy}
    \cup {RotateCol(x, n) : x \in 0..(sz.width - 1), n \in 0..MaxBy}

\* Screen::new: every pixel off
SInit ==
    /\ \/ /\ sfn = "apply"
          /\ size = SMALL_SIZE
       \/ /\ sfn = "test_example"
          /\ size = EXAMPLE_SIZE
    /\ screen = {}
    /\ sidx = 0
    /\ sprev = {}
    /\ sinst = NoInstruction
    /\ spanic = FALSE
    /\ NoComputer
    /\ NoSearch
    /\ NoIsomorph
    /\ NoRules
    /\ NoProcess
    /\ NoDecompress
    /\ NoKey
    /\ NoPad
    /\ NoScramble
    /\ NoVisited
    /\ NoPair

\* one call of Screen::apply with any instruction
Apply ==
    /\ UNCHANGED not_svars
    /\ sfn = "apply"
    /\ ~spanic
    /\ \E instruction \in ScreenInstructions(size) :
          /\ sinst' = instruction
          /\ spanic' = apply_panics(screen, size, instruction)
          /\ screen' = IF spanic' THEN screen ELSE apply(screen, size, instruction)
    /\ sprev' = screen
    /\ UNCHANGED <<sfn, size, sidx>>

\* tests::test_example applies the next instruction of EXAMPLE
TestExample ==
    /\ UNCHANGED not_svars
    /\ sfn = "test_example"
    /\ ~spanic
    /\ sidx < Len(EXAMPLE)
    /\ sinst' = EXAMPLE[sidx + 1]
    /\ spanic' = apply_panics(screen, size, EXAMPLE[sidx + 1])
    /\ screen' = IF spanic' THEN screen ELSE apply(screen, size, EXAMPLE[sidx + 1])
    /\ sprev' = screen
    /\ sidx' = sidx + 1
    /\ UNCHANGED <<sfn, size>>

SNext ==
    \/ Apply
    \/ TestExample

(***************************************************************************)
(* day14: State::update and generate_onetime_pad                           *)
(***************************************************************************)
\* the length of the pad and the number of indices a potential key lives
PAD_LENGTH == 64
EXPIRY == 1000

\* the characters State has a queue for, in the order of State::idx_for
HEX_CHARS == <<"0", "1", "2", "3", "4", "5", "6", "7", "8", "9", "a", "b", "c", "d", "e", "f">>

\* State::idx_for; the characters of a hash are hexadecimal digits
idx_for(ch) == CHOOSE n \in 0..15 : HEX_CHARS[n + 1] = ch

\* State::default: sixteen empty queues
DefaultState == [n \in 0..15 |-> <<>>]

\* the indices, from 1, at which a window of n equal characters starts
EqualWindows(hash, n) ==
    SelectSeq([i \in 1..Len(hash) |-> i],
              LAMBDA i : i + n - 1 <= Len(hash) /\ \A k \in i..(i + n - 2) : hash[k] = hash[k + 1])

\* first_triplet_in; "-" is None
first_triplet_in(hash) ==
    LET windows == EqualWindows(hash, 3)
    IN  IF windows = <<>> THEN "-" ELSE hash[Head(windows)]

\* quintuplets_in: one character for every window of five
quintuplets_in(hash) ==
    LET windows == EqualWindows(hash, 5)
    IN  [k \in 1..Len(windows) |-> hash[windows[k]]]

\* the while loop of update on one deque: pop the front while it has expired
RECURSIVE PopExpired(_, _)
PopExpired(deque, at) ==
    IF deque # <<>> /\ at - Head(deque) > EXPIRY THEN PopExpired(Tail(deque), at) ELSE deque

\* the for loop of update over the quintuplets: every queue drained in turn
RECURSIVE Activate(_, _, _)
Activate(st, quintuplets, activated) ==
    IF quintuplets = <<>> THEN [state |-> st, activated |-> activated]
    ELSE LET ch == Head(quintuplets)
             drained == [k \in 1..Len(st[idx_for(ch)]) |-> <<st[idx_for(ch)][k], ch>>]
         IN  Activate([st EXCEPT ![idx_for(ch)] = <<>>], Tail(quintuplets), activated \o drained)

\* State::update: the State after the call and the keys it returns
update(st, at, triplet, quintuplets) ==
    LET fresh == [n \in 0..15 |-> PopExpired(st[n], at)]
        drained == Activate(fresh, quintuplets, <<>>)
        deque == IF triplet = "-" THEN <<>> ELSE drained.state[idx_for(triplet)]
        duplicate == deque # <<>> /\ deque[Len(deque)] = at
    IN  [state |-> IF triplet # "-" /\ ~duplicate
                   THEN [drained.state EXCEPT ![idx_for(triplet)] = Append(deque, at)]
                   ELSE drained.state,
         activated |-> drained.activated]

\* the order of sort_unstable on (usize, char)
KeyLess(k1, k2) ==
    k1[1] < k2[1] \/ (k1[1] = k2[1] /\ idx_for(k1[2]) < idx_for(k2[2]))

\* keys.sort_unstable(): every key goes to the place that the number of keys
\* less than it gives; the keys differ, one index has one triplet
SortKeys(ks) ==
    LET rank == [k \in 1..Len(ks) |-> Cardinality({j \in 1..Len(ks) : KeyLess(ks[j], ks[k])})]
    IN  [r \in 1..Len(ks) |-> ks[CHOOSE k \in 1..Len(ks) : rank[k] = r - 1]]

\* keys.truncate(PAD_LENGTH)
Truncate(ks) == IF Len(ks) > PAD_LENGTH THEN SubSeq(ks, 1, PAD_LENGTH) ELSE ks

\* the hashes of the inputs: a quintuplet of a, no repetition, a triplet of
\* b, a quintuplet of b, a triplet of b before a quintuplet of a, and a
\* quintuplet of b before one of a
DEFAULT_HASH == <<"a", "a", "a", "a", "a">>
Hashes ==
    {DEFAULT_HASH,
     <<"a", "b", "a", "b">>,
     <<"b", "b", "b">>,
     <<"b", "b", "b", "b", "b">>,
     <<"b", "b", "b", "a", "a", "a", "a", "a">>,
     <<"b", "b", "b", "b", "b", "a", "a", "a", "a", "a">>}

\* the indices whose hash the input chooses; every other index has DEFAULT_HASH
SpecialIndices == {0, 1, PAD_LENGTH + 2, PAD_LENGTH + 3}

\* make_hash
make_hash(at) == IF at \in SpecialIndices THEN special[at] ELSE DEFAULT_HASH

HInit ==
    /\ special \in [SpecialIndices -> Hashes]
    /\ hidx = 0
    /\ potential = DefaultState
    /\ keys = <<>>
    /\ hret = [done |-> FALSE, pad |-> <<>>, final_insert |-> 0]
    /\ NoComputer
    /\ NoSearch
    /\ NoIsomorph
    /\ NoRules
    /\ NoProcess
    /\ NoDecompress
    /\ NoKey
    /\ NoScreen
    /\ NoScramble
    /\ NoVisited
    /\ NoPair

\* one turn of the while loop of generate_onetime_pad
PadTurn ==
    /\ UNCHANGED not_hvars
    /\ ~hret.done
    /\ special # <<>>
    /\ Len(keys) < PAD_LENGTH
    /\ LET hash == make_hash(hidx)
           updated == update(potential, hidx, first_triplet_in(hash), quintuplets_in(hash))
       IN  /\ potential' = updated.state
           /\ keys' = keys \o updated.activated
    /\ hidx' = hidx + 1
    /\ UNCHANGED <<special, hret>>

\* the end of generate_onetime_pad: truncate, sort, and return the pad with
\* the insert index of the last key
PadReturn ==
    /\ UNCHANGED not_hvars
    /\ ~hret.done
    /\ Len(keys) >= PAD_LENGTH
    /\ keys' = SortKeys(Truncate(keys))
    /\ hret' = [done |-> TRUE,
                pad |-> [k \in 1..Len(keys') |-> keys'[k][2]],
                final_insert |-> keys'[Len(keys')][1]]
    /\ UNCHANGED <<special, hidx, potential>>

HNext ==
    \/ PadTurn
    \/ PadReturn

(***************************************************************************)
(* day21: Operation::apply, Operation::unapply, scramble and unscramble    *)
(***************************************************************************)
INPUT_PART1 == <<"a", "b", "c", "d", "e", "f", "g", "h">>
INPUT_PART2 == <<"f", "b", "g", "d", "c", "e", "a", "h">>

\* Operation: x and y are its positions or its count, l and m its letters or
\* its Direction
SwapPosition(x, y) == [op |-> "SwapPosition", x |-> x, y |-> y, l |-> "-", m |-> "-"]
SwapLetter(l, m) == [op |-> "SwapLetter", x |-> 0, y |-> 0, l |-> l, m |-> m]
Rotate(direction, n) == [op |-> "Rotate", x |-> n, y |-> 0, l |-> direction, m |-> "-"]
RotateOn(l) == [op |-> "RotateOn", x |-> 0, y |-> 0, l |-> l, m |-> "-"]
Reverse(x, y) == [op |-> "Reverse", x |-> x, y |-> y, l |-> "-", m |-> "-"]
Move(x, y) == [op |-> "Move", x |-> x, y |-> y, l |-> "-", m |-> "-"]

\* reverse_rotate_position
reverse_rotate_position(p) ==
    IF p = 0 THEN 7
    ELSE ((IF p % 2 = 0 THEN p + 8 ELSE p) - 1) \div 2

\* reverse_rotate
reverse_rotate(p) == (8 + p - reverse_rotate_position(p)) % 8

\* VecDeque::swap, positions from 0
swap(deq, i, j) == [deq EXCEPT ![i + 1] = deq[j + 1], ![j + 1] = deq[i + 1]]

\* the closure of SwapLetter
swap_letter(deq, l, m) ==
    [k \in 1..Len(deq) |-> IF deq[k] = l THEN m ELSE IF deq[k] = m THEN l ELSE deq[k]]

\* buffer.iter().position(..): the first position of the letter, from 0, or
\* Len(deq) when the letter is absent
position_of(deq, l) ==
    IF \E k \in 1..Len(deq) : deq[k] = l
    THEN (CHOOSE k \in 1..Len(deq) : deq[k] = l /\ \A j \in 1..(k - 1) : deq[j] # l) - 1
    ELSE Len(deq)

\* the rotation of RotateOn for a letter at the position p
rotate_on_count(p) == 1 + p + (IF p >= 4 THEN 1 ELSE 0)

\* buffer.make_contiguous()[i..=j].reverse()
reverse_slice(deq, i, j) ==
    [k \in 1..Len(deq) |-> IF k - 1 >= i /\ k - 1 <= j THEN deq[i + j + 2 - k] ELSE deq[k]]

\* buffer.remove(i) then buffer.insert(j, c)
remove_insert(deq, i, j) ==
    LET ch == deq[i + 1]
        removed == [k \in 1..(Len(deq) - 1) |-> IF k <= i THEN deq[k] ELSE deq[k + 1]]
    IN  [k \in 1..Len(deq) |->
            IF k <= j THEN removed[k] ELSE IF k = j + 1 THEN ch ELSE removed[k - 1]]

\* whether Operation::apply panics: swap out of bounds, a rotation by more
\* than the length, a letter that is absent, a slice that ends before it
\* starts or after the buffer, a removal or an insertion out of range
apply_op_panics(o, deq) ==
    CASE o.op = "SwapPosition" -> o.x >= Len(deq) \/ o.y >= Len(deq)
      [] o.op = "SwapLetter" -> FALSE
      [] o.op = "Rotate" -> rotate_panics(deq, o.x)
      [] o.op = "RotateOn" ->
            \/ position_of(deq, o.l) = Len(deq)
            \/ rotate_panics(deq, rotate_on_count(position_of(deq, o.l)))
      [] o.op = "Reverse" -> o.x > o.y + 1 \/ o.y >= Len(deq)
      [] o.op = "Move" -> o.x >= Len(deq) \/ o.y > Len(deq) - 1

\* Operation::apply
apply_op(o, deq) ==
    CASE o.op = "SwapPosition" -> swap(deq, o.x, o.y)
      [] o.op = "SwapLetter" -> swap_letter(deq, o.l, o.m)
      [] o.op = "Rotate" ->
            IF o.l = "left" THEN rotate_left(deq, o.x) ELSE rotate_right(deq, o.x)
      [] o.op = "RotateOn" -> rotate_right(deq, rotate_on_count(position_of(deq, o.l)))
      [] o.op = "Reverse" -> reverse_slice(deq, o.x, o.y)
      [] o.op = "Move" -> remove_insert(deq, o.x, o.y)

\* whether Operation::unapply panics
unapply_op_panics(o, deq) ==
    CASE o.op = "SwapPosition" -> o.x >= Len(deq) \/ o.y >= Len(deq)
      [] o.op = "SwapLetter" -> FALSE
      [] o.op = "Rotate" -> rotate_panics(deq, o.x)
      [] o.op = "RotateOn" -> position_of(deq, o.l) = Len(deq)
      [] o.op = "Reverse" -> o.x > o.y + 1 \/ o.y >= Len(deq)
      [] o.op = "Move" -> o.y >= Len(deq) \/ o.x > Len(deq) - 1

\* Operation::unapply; Move(to, from) takes the first index for to
unapply_op(o, deq) ==
    CASE o.op = "SwapPosition" -> swap(deq, o.x, o.y)
      [] o.op = "SwapLetter" -> swap_letter(deq, o.l, o.m)
      [] o.op = "Rotate" ->
            IF o.l = "left" THEN rotate_right(deq, o.x) ELSE rotate_left(deq, o.x)
      [] o.op = "RotateOn" -> rotate_left(deq, reverse_rotate(position_of(deq, o.l)))
      [] o.op = "Reverse" -> reverse_slice(deq, o.x, o.y)
      [] o.op = "Move" -> remove_insert(deq, o.y, o.x)

\* the operations of the inputs: positions below 8, counts up to 8, letters
\* of the buffer
Letters == {"a", "b", "c", "d", "e", "f", "g", "h"}
Operations ==
    {SwapPosition(x, y) : x \in 0..7, y \in 0..7}
    \cup {SwapLetter(l, m) : l \in Letters, m \in Letters}
    \cup {Rotate(direction, n) : direction \in {"left", "right"}, n \in 0..8}
    \cup {RotateOn(l) : l \in Letters}
    \cup {Reverse(x, y) : x \in 0..7, y \in 0..7}
    \cup {Move(x, y) : x \in 0..7, y \in 0..7}

\* the order of operations.reverse()
ReverseOps(os) == [k \in 1..Len(os) |-> os[Len(os) + 1 - k]]

\* scramble starts on one of the two inputs of the parts
WInit ==
    /\ winput \in {INPUT_PART1, INPUT_PART2}
    /\ ops = <<>>
    /\ buffer = winput
    /\ todo = <<>>
    /\ wpc = "scramble"
    /\ NoComputer
    /\ NoSearch
    /\ NoIsomorph
    /\ NoRules
    /\ NoProcess
    /\ NoDecompress
    /\ NoKey
    /\ NoScreen
    /\ NoPad
    /\ NoVisited
    /\ NoPair

\* scramble takes the next operation from its iterator and applies it
ScrambleApply ==
    /\ UNCHANGED not_wvars
    /\ wpc = "scramble"
    /\ Len(ops) < MaxOps
    /\ \E o \in Operations :
          /\ ops' = Append(ops, o)
          /\ IF apply_op_panics(o, buffer)
             THEN wpc' = "panicked" /\ UNCHANGED buffer
             ELSE buffer' = apply_op(o, buffer) /\ UNCHANGED wpc
    /\ UNCHANGED <<winput, todo>>

\* scramble returns and unscramble is called with its result and the same operations
UnscrambleCall ==
    /\ UNCHANGED not_wvars
    /\ wpc = "scramble"
    /\ ops # <<>>
    /\ todo' = ReverseOps(ops)
    /\ wpc' = "unscramble"
    /\ UNCHANGED <<winput, ops, buffer>>

\* unscramble unapplies the next of the reversed operations
UnscrambleUnapply ==
    /\ UNCHANGED not_wvars
    /\ wpc = "unscramble"
    /\ todo # <<>>
    /\ IF unapply_op_panics(Head(todo), buffer)
       THEN wpc' = "panicked" /\ UNCHANGED buffer
       ELSE buffer' = unapply_op(Head(todo), buffer) /\ UNCHANGED wpc
    /\ todo' = Tail(todo)
    /\ UNCHANGED <<winput, ops>>

\* unscramble returns
UnscrambleReturn ==
    /\ UNCHANGED not_wvars
    /\ wpc = "unscramble"
    /\ todo = <<>>
    /\ wpc' = "returned"
    /\ UNCHANGED <<winput, ops, buffer, todo>>

WNext ==
    \/ ScrambleApply
    \/ UnscrambleCall
    \/ UnscrambleUnapply
    \/ UnscrambleReturn

(***************************************************************************)
(* day11: the lookup of a candidate child in the visited set               *)
(***************************************************************************)
\* the states a search holds: a safe placement of every device, with the
\* elevator on a floor that has a device
SearchStates ==
    {[s EXCEPT !.elevator = e] : s \in InitialStates, e \in 0..(FLOORS - 1)}

OccupiedStates == {s \in SearchStates : ~Floor_is_empty(s.floors[s.elevator])}

VInit ==
    /\ vfn \in {"lib.rs", "state.rs"}
    /\ earlier \in OccupiedStates
    /\ candidate \in OccupiedStates
    /\ discarded = "-"
    /\ vpc = "call"
    /\ NoComputer
    /\ NoSearch
    /\ NoIsomorph
    /\ NoRules
    /\ NoProcess
    /\ NoDecompress
    /\ NoKey
    /\ NoScreen
    /\ NoPad
    /\ NoScramble
    /\ NoPair

\* lib.rs goalseek: visited.insert(state.isomorph()), then State::next asks
\* visited.contains(&next.isomorph())
LibVisitedContains ==
    /\ vpc = "call"
    /\ vfn = "lib.rs"
    /\ discarded' = (LibState_isomorph(candidate) \in {LibState_isomorph(earlier)})
    /\ vpc' = "done"
    /\ UNCHANGED <<vfn, earlier, candidate>>
    /\ UNCHANGED not_vvars

\* state.rs: the visited set is a HashSet<State>, so the lookup is
\* PartialEq::eq on states of equal Hash
StateRsEq ==
    /\ vpc = "call"
    /\ vfn = "state.rs"
    /\ discarded' = (/\ earlier.elevator = candidate.elevator
                     /\ StateRs_isomorph(earlier) = StateRs_isomorph(candidate))
    /\ vpc' = "done"
    /\ UNCHANGED <<vfn, earlier, candidate>>
    /\ UNCHANGED not_vvars

VNext ==
    \/ LibVisitedContains
    \/ StateRsEq

SpecVisited == VInit /\ [][VNext]_vars

(***************************************************************************)
(* day12: its own Computer, run beside the shared one                      *)
(***************************************************************************)
\* day12 Instruction: Copy(Value, Register), Increase(Register),
\* Decrease(Register), Jnz(Value, Integer)
Day12Copy(x, r) == [op |-> "Copy", x |-> x, r |-> r, n |-> 0]
Day12Increase(r) == [op |-> "Increase", x |-> NoOperand, r |-> r, n |-> 0]
Day12Decrease(r) == [op |-> "Decrease", x |-> NoOperand, r |-> r, n |-> 0]
Day12Jnz(x, n) == [op |-> "Jnz", x |-> x, r |-> NoRegister, n |-> n]

\* the assembunny Instruction parsed from the text of a day12 Instruction
AsShared(i) ==
    CASE i.op = "Copy" -> Copy(i.x, Reg(i.r))
      [] i.op = "Increase" -> Increase(Reg(i.r))
      [] i.op = "Decrease" -> Decrease(Reg(i.r))
      [] i.op = "Jnz" -> Jnz(i.x, Lit(i.n))

Day12Instructions ==
    {Day12Copy(x, "a") : x \in {Reg("b"), Lit(MaxInt)}}
    \cup {Day12Increase("a"), Day12Decrease("a"), Day12Decrease("b")}
    \cup {Day12Jnz(x, n) : x \in {Reg("a"), Lit(1)}, n \in {-1, 2, MaxInt}}

Day12Programs == UNION {[1..n -> Day12Instructions] : n \in 0..MaxProgLen}

\* the seedings of the registers before run; part2 seeds c with 1
Day12Seedings ==
    {[r \in Register |-> CASE r = "a" -> a [] r = "b" -> b [] r = "c" -> c [] OTHER -> 0] :
        a \in {0, 2, MaxInt}, b \in {0, MinInt}, c \in {0, 1}}

\* day12 Computer::value
day12_value(rs, v) == IF v.k = "reg" THEN rs[v.r] ELSE v.n

\* day12 Computer::step, the match on the instruction
day12_exec(rs, instr, oc) ==
    CASE instr.op = "Copy" ->
            [panic |-> FALSE, regs |-> [rs EXCEPT ![instr.r] = day12_value(rs, instr.x)]]
      [] instr.op \in {"Increase", "Decrease"} ->
            LET s == Add32(rs[instr.r], IF instr.op = "Increase" THEN 1 ELSE -1) IN
            [panic |-> Panics(s, oc),
             regs |-> IF Panics(s, oc) THEN rs ELSE [rs EXCEPT ![instr.r] = s.val]]
      [] OTHER ->
            [panic |-> FALSE, regs |-> rs]

\* the mutant of day12_advance: jnz jumps whatever its value is
day12_advance_always(prog, rs, i, oc) ==
    LET instr == At(prog, i)
        d == IF instr.op = "Jnz" THEN instr.n ELSE 1
        s == Add32(i, d)
    IN  [panic |-> Panics(s, oc),
         ip |-> IF in_program(prog, s.val) THEN s.val ELSE HALT_IP]

\* day12 Computer::step, the next ip
day12_advance(prog, rs, i, oc) ==
    LET instr == At(prog, i)
        d == IF instr.op = "Jnz" /\ day12_value(rs, instr.x) # 0 THEN instr.n ELSE 1
        s == Add32(i, d)
    IN  [panic |-> Panics(s, oc),
         ip |-> IF in_program(prog, s.val) THEN s.val ELSE HALT_IP]

Observed(c) == [regs |-> c.regs, ip |-> c.ip, status |-> c.status]

\* Computer::from_program on both crates, then the same seeding
TInit ==
    /\ tbuild \in {"on", "off"}
    /\ \E p \in Day12Programs, seeding \in Day12Seedings :
         /\ twelve = [program |-> p, regs |-> seeding, ip |-> 0, status |-> "running"]
         /\ shared = [program |-> [k \in 1..Len(p) |-> AsShared(p[k])],
                      regs |-> seeding, ip |-> 0, status |-> "running"]
    /\ ttrace = <<>>
    /\ strace = <<>>
    /\ NoComputer
    /\ NoSearch
    /\ NoIsomorph
    /\ NoRules
    /\ NoProcess
    /\ NoDecompress
    /\ NoKey
    /\ NoScreen
    /\ NoPad
    /\ NoScramble
    /\ NoVisited

\* day12 run calls step
TwelveStep ==
    /\ twelve.status = "running"
    /\ Len(ttrace) < MaxSteps
    /\ LET next ==
             IF ~in_program(twelve.program, twelve.ip)
             THEN [twelve EXCEPT !.status = "panicked"]
             ELSE LET e == day12_exec(twelve.regs, At(twelve.program, twelve.ip), tbuild)
                      a == day12_advance(twelve.program, e.regs, twelve.ip, tbuild)
                  IN  IF e.panic \/ a.panic
                      THEN [twelve EXCEPT !.regs = e.regs, !.status = "panicked"]
                      ELSE [twelve EXCEPT !.regs = e.regs, !.ip = a.ip,
                                          !.status = IF a.ip # HALT_IP THEN "running"
                                                     ELSE "halted"]
       IN  /\ twelve' = next
           /\ ttrace' = Append(ttrace, Observed(next))
    /\ UNCHANGED <<tbuild, shared, strace>>
    /\ UNCHANGED not_tvars

\* assembunny run calls step, with no sender
SharedStep ==
    /\ shared.status = "running"
    /\ Len(strace) < MaxSteps
    /\ LET next ==
             IF ~in_program(shared.program, shared.ip)
             THEN [shared EXCEPT !.status = "panicked"]
             ELSE LET instr == At(shared.program, shared.ip)
                      e == exec(shared.program, shared.regs, shared.ip, instr, tbuild)
                      a == advance(e.program, e.regs, shared.ip, tbuild)
                  IN  IF instr.op = "Out"
                      THEN [shared EXCEPT !.status = "halted"]
                      ELSE IF e.panic \/ a.panic
                      THEN [shared EXCEPT !.program = e.program, !.regs = e.regs,
                                          !.status = "panicked"]
                      ELSE [shared EXCEPT !.program = e.program, !.regs = e.regs,
                                          !.ip = a.ip,
                                          !.status = IF a.ip # HALT_IP THEN "running"
                                                     ELSE "halted"]
       IN  /\ shared' = next
           /\ strace' = Append(strace, Observed(next))
    /\ UNCHANGED <<tbuild, twelve, ttrace>>
    /\ UNCHANGED not_tvars

TNext ==
    \/ TwelveStep
    \/ SharedStep

SpecTwelve == TInit /\ [][TNext]_vars

(***************************************************************************)
(* Specifications                                                          *)
(***************************************************************************)
\* an assembunny Computer, run in its own thread, and day25's receiver
Spec == CInit /\ [][CNext]_vars

\* a day11 search
SpecSearch == DInit /\ [][DNext]_vars

\* one call of day11 State::isomorph
SpecIsomorph == IsoInit /\ [][IsoNext]_vars

\* one call of day20 lowest_legal_value or num_legal_values_in
SpecRules == RInit /\ [][RNext]_vars

\* day10 process; its loop is the only thread, so it always takes its next turn
SpecProcess == PInit /\ [][PNext]_vars /\ WF_vars(PNext)

\* one call of day09 decompress or count_decompressed_v2
SpecDecompress == ZInit /\ [][ZNext]_vars

\* a Key of day02 under Key::shift, and one call of decode_on
SpecKey == KInit /\ [][KNext]_vars

\* a Screen of day08 under Screen::apply
SpecScreen == SInit /\ [][SNext]_vars

\* one call of day14 generate_onetime_pad
SpecPad == HInit /\ [][HNext]_vars

\* day21 scramble followed by unscramble with the same operations
SpecScramble == WInit /\ [][WNext]_vars

(***************************************************************************)
(* Properties of the Computer                                              *)
(***************************************************************************)
\* the latest step call fetched an instruction and has ended (returned or
\* panicked)
Executed == last.called /\ last.instr.op # "-" /\ pc \notin {"sending", "sent"}

\* the latest step call returned before the ip update: an Out without a
\* sender or whose send failed
EndedInOut == last.instr.op = "Out" /\ last.ret = "false" /\ last.next_ip = <<>>

\* i + d, as an exact integer, is an index of the program
SumInProgram(i, d) == d >= 0 - i /\ d < Len(program) - i

\* the ip stored for the exact next ip i + d
StoredIp(i, d) == IF SumInProgram(i, d) THEN i + d ELSE HALT_IP

\* C1: in every reachable state the instruction pointer is a valid index of
\* the program or the halt sentinel, for every program, the empty one
\* included.
C1_IpValidOrHalt == ip = HALT_IP \/ (0 <= ip /\ ip < Len(program))

\* C2 as stated: step returns false exactly when the next ip it computed is
\* outside [0, program.len()), and the run loop ends only through that
\* transition.
C2_FalseOnlyOutOfBounds ==
    /\ last.ret = "false" =>
           /\ last.next_ip # <<>>
           /\ ~(0 <= last.next_ip[1] /\ last.next_ip[1] < Len(program))
    /\ last.ret = "true" =>
           /\ last.next_ip # <<>>
           /\ 0 <= last.next_ip[1] /\ last.next_ip[1] < Len(program)
    /\ pc = "halted" => ip = HALT_IP

\* C2 amended: a step call that returns, returns false exactly when the next
\* ip it computed is outside [0, program.len()) (ip becomes the sentinel) or
\* when the instruction is an Out and there is no sender or the send fails
\* (ip is left as it was); it returns true otherwise, with ip the computed
\* next ip.  The run loop ends only by a false return or by a panic in step.
C2_StepReturnValue ==
    /\ last.ret = "false" =>
           /\ pc = "halted"
           /\ \/ /\ last.next_ip # <<>>
                 /\ ~(0 <= last.next_ip[1] /\ last.next_ip[1] < Len(program))
                 /\ ip = HALT_IP
              \/ /\ last.next_ip = <<>>
                 /\ last.instr.op = "Out"
                 /\ sender = "None" \/ receiver = "dropped"
                 /\ ip = last.ip
    /\ last.ret = "true" =>
           /\ pc \in {"running", "sending", "sent"}
           /\ last.next_ip # <<>>
           /\ 0 <= last.next_ip[1] /\ last.next_ip[1] < Len(program)
           /\ pc = "running" => ip = last.next_ip[1]
    /\ pc = "halted" => last.ret = "false"
    /\ pc = "panicked" <=> last.ret = "panic"

\* a step returned false on an Out that had no sender
C2_Witness ==
    /\ last.ret = "false" /\ last.instr.op = "Out" /\ sender = "None"
    /\ ip = last.ip /\ pc = "halted"

\* C3: a step that executes Jnz(cond, off) at ip changes no register and
\* stores ip + value(off) as the next ip when value(cond) # 0 and ip + 1
\* otherwise; a step that executes any other instruction stores ip + 1
\* (the halt sentinel standing for a next ip outside the program).  Read
\* over the steps that reach the ip update: an Out that returns early is
\* the subject of C8.
C3_JnzRule ==
    (Executed /\ ~EndedInOut) =>
        LET i == last.instr
            d == IF i.op = "Jnz" /\ value(last.regs, i.x) # 0
                 THEN value(last.regs, i.y) ELSE 1
        IN  /\ pc # "panicked"
            /\ ip = StoredIp(last.ip, d)
            /\ i.op = "Jnz" => regs = last.regs

\* the mapping of C4, operands kept
ToggledOp(op) ==
    CASE op = "Increase" -> "Decrease"
      [] op = "Decrease" -> "Increase"
      [] op = "Toggle" -> "Increase"
      [] op = "Out" -> "Increase"
      [] op = "Jnz" -> "Copy"
      [] op = "Copy" -> "Jnz"

ToggleInBounds ==
    /\ Executed
    /\ last.instr.op = "Toggle"
    /\ SumInProgram(last.ip, value(last.regs, last.instr.x))

\* C4: a Toggle(v) executed at ip with ip + value(v) a valid index replaces
\* the instruction at that index by the one the mapping gives, operands
\* kept, and changes no other instruction, not the length and no register.
C4_ToggleInBounds ==
    ToggleInBounds =>
        LET t == last.ip + value(last.regs, last.instr.x) IN
        /\ pc # "panicked"
        /\ regs = last.regs
        /\ Len(program) = Len(last.program)
        /\ \A j \in 0..(Len(program) - 1) :
             At(program, j) =
                IF j = t
                THEN [op |-> ToggledOp(At(last.program, j).op),
                      x |-> At(last.program, j).x,
                      y |-> At(last.program, j).y]
                ELSE At(last.program, j)

\* a Toggle hit an Out instruction
C4_Witness ==
    /\ ToggleInBounds
    /\ At(last.program, last.ip + value(last.regs, last.instr.x)).op = "Out"

\* a Toggle toggled itself
C4_WitnessSelf ==
    /\ ToggleInBounds
    /\ value(last.regs, last.instr.x) = 0

\* C5: a Toggle(v) executed at ip with ip + value(v) negative or at least
\* program.len() changes no instruction and no register, raises no error,
\* and execution continues at ip + 1, for every i32 value of v.
C5_ToggleOutOfBounds ==
    (/\ Executed
     /\ last.instr.op = "Toggle"
     /\ ~SumInProgram(last.ip, value(last.regs, last.instr.x)))
    => /\ pc # "panicked"
       /\ program = last.program
       /\ regs = last.regs
       /\ ip = StoredIp(last.ip, 1)

LiteralDestination ==
    /\ Executed
    /\ \/ last.instr.op = "Copy" /\ last.instr.y.k = "lit"
       \/ last.instr.op \in {"Increase", "Decrease"} /\ last.instr.x.k = "lit"

\* C6: a Copy whose destination is a literal, or an Increase or Decrease
\* of a literal, changes no register and no instruction and advances ip
\* by 1.
C6_LiteralDestinationNoOp ==
    LiteralDestination =>
        /\ pc # "panicked"
        /\ regs = last.regs
        /\ program = last.program
        /\ ip = StoredIp(last.ip, 1)

\* a Copy with a literal destination and a nonzero source ran as the second
\* step
C6_Witness ==
    /\ LiteralDestination
    /\ last.instr.op = "Copy"
    /\ steps = 2
    /\ last.ip = 1
    /\ value(last.regs, last.instr.x) # 0

\* C7: with the capacity-0 channel, the thread of the computer executes
\* nothing after an Out(v) until v was received, a receive completes only
\* after a send, and the values received are those of the executed Out
\* instructions, in order, none lost or duplicated: received is outs, but
\* for the one value whose send is blocked or has failed.
C7_Rendezvous ==
    sender = "Some" =>
        /\ Len(received) <= Len(outs)
        /\ Len(outs) <= Len(received) + 1
        /\ received = SubSeq(outs, 1, Len(received))
        /\ Len(outs) > Len(received) =>
              /\ last.instr.op = "Out"
              /\ ip = last.ip /\ regs = last.regs /\ program = last.program
              /\ \/ pc = "sending" /\ pending = <<outs[Len(outs)]>>
                 \/ pc = "halted" /\ last.ret = "false" /\ receiver = "dropped"

\* two values went through the channel and a third send is blocked
C7_Witness ==
    /\ sender = "Some"
    /\ Len(received) >= 2
    /\ received = SubSeq(outs, 1, 2)
    /\ pc = "sending"

\* C8: once the receiver is dropped, the first Out the computer executes
\* fails to send: step returns false and run returns with ip and the
\* registers as they were before that Out, and nothing is executed after.
C8_SendFailsAfterDrop ==
    [][ /\ ( /\ sender = "Some"
             /\ receiver = "dropped"
             /\ pc = "running"
             /\ steps' = steps + 1
             /\ in_program(program, ip)
             /\ At(program, ip).op = "Out" )
           => /\ pc' = "halted"
              /\ last'.ret = "false"
              /\ ip' = ip /\ regs' = regs /\ program' = program
        /\ ( pc = "sending" /\ receiver = "dropped" /\ pc' # pc )
           => /\ pc' = "halted"
              /\ last'.ret = "false"
              /\ ip' = ip /\ regs' = regs /\ program' = program
        /\ pc = "halted"
           => /\ pc' = "halted"
              /\ ip' = ip /\ regs' = regs /\ program' = program /\ steps' = steps
      ]_cvars

\* the receiver was dropped after a mismatch and a later Out failed to send
C8_Witness ==
    /\ sender = "Some"
    /\ receiver = "dropped"
    /\ pc = "halted"
    /\ last.instr.op = "Out"
    /\ last.ret = "false"
    /\ Len(received) >= 1
    /\ Len(outs) = Len(received) + 1
    /\ ip = last.ip /\ regs = last.regs

(***************************************************************************)
(* Properties of the day11 search                                          *)
(***************************************************************************)
\* the states one elevator move away under the rules of the puzzle: one or
\* two devices of the elevator's floor go one floor up or down with it, and
\* the state reached is safe
LegalMoves(s) ==
    LET devices == Floor_devices(s.floors[s.elevator])
        n == Len(devices)
        pairs == TupleCombinations(1, 2, n)
        loads == {<<devices[k]>> : k \in 1..n}
                 \cup {<<devices[pairs[k][1]], devices[pairs[k][2]]>> : k \in 1..Len(pairs)}
        tos == {t \in {s.elevator - 1, s.elevator + 1} : t >= 0 /\ t < FLOORS}
    IN  {c \in {MoveDevices(s, l, t) : l \in loads, t \in tos} : SafeState(c)}

AllOnTop(s) == \A i \in 0..(FLOORS - 2) : s.floors[i] = EmptyFloor

\* the least number of moves from a state of frontier (n moves away from
\* the start) to a state with every device on the top floor
RECURSIVE MinMovesFrom(_, _, _)
MinMovesFrom(frontier, seen, n) ==
    IF \E s \in frontier : AllOnTop(s) THEN <<n>>
    ELSE LET further == (UNION {LegalMoves(s) : s \in frontier}) \ seen
         IN  IF further = {} THEN <<>>
             ELSE MinMovesFrom(further, seen \cup further, n + 1)

MinMoves(s) == MinMovesFrom({s}, {s}, 0)

\* C9: lib.rs goalseek returns Some(n), n the least number of elevator
\* moves that bring every device to the top floor, None when there is no
\* way; for the example it returns Some(11).
C9_GoalseekMinimum ==
    (revision = "lib" /\ gpc = "done") =>
        /\ result = MinMoves(initial)
        /\ initial = Example => result = <<11>>

\* C10: every state the search generates, in either revision, is safe.
C10_GeneratedStatesSafe ==
    \A k \in 1..Len(queue) : SafeState(queue[k].state)

(***************************************************************************)
(* Properties of day11 State::isomorph                                     *)
(***************************************************************************)
\* C11: lib.rs State::isomorph returns the same value for two states that
\* differ only by a renaming of the elements.
C11_RenamingInvariant ==
    (isofn = "lib.rs" /\ ipc = "done") => isomorphs[1] = isomorphs[2]

\* the numbers of pairs, lone chips and lone generators of a floor, in one number
FloorValue(f) ==
    Cardinality(f.generators \cap f.microchips)
    + (2 ^ 4) * Cardinality(f.microchips \ f.generators)
    + (2 ^ 8) * Cardinality(f.generators \ f.microchips)

\* C12: in the state.rs/floor.rs revision Floor::isomorph is
\* pairs + (lone chips << 4) + (lone generators << 8) with no bit above
\* bit 11, State::isomorph is the or of the floors' isomorphs, floor i
\* shifted by 16 * i, every floor stays inside its own 12 bits, and a state
\* with devices on one floor only has that floor's isomorph shifted.
C12_IsomorphLayout ==
    (isofn = "state.rs" /\ ipc = "done") =>
        /\ \A i \in 0..(FLOORS - 1) :
              /\ FloorRs_isomorph(subject.floors[i]) = Bits(FloorValue(subject.floors[i]))
              /\ FloorRs_isomorph(subject.floors[i]) \subseteq 0..11
        /\ isomorphs[1] =
              {16 * i + b : i \in 0..(FLOORS - 1), b \in 0..15} \cap
              {n \in 0..63 : (n % 16) \in Bits(FloorValue(subject.floors[n \div 16]))}
        /\ \A n \in isomorphs[1] : n % 16 <= 11
        /\ \A i \in 0..(FLOORS - 1) :
              (\A j \in 0..(FLOORS - 1) : j # i => Floor_is_empty(subject.floors[j]))
                  => isomorphs[1] = {16 * i + b : b \in FloorRs_isomorph(subject.floors[i])}

\* an upper floor alone holds three pairs, two lone chips and two lone generators
C12_Witness ==
    /\ isofn = "state.rs"
    /\ ipc = "done"
    /\ \E i \in 1..(FLOORS - 1) :
          /\ \A j \in 0..(FLOORS - 1) : j # i => Floor_is_empty(subject.floors[j])
          /\ FloorValue(subject.floors[i]) = 3 + 2 * 16 + 2 * 256
          /\ isomorphs[1] = {16 * i, 16 * i + 1, 16 * i + 5, 16 * i + 9}

(***************************************************************************)
(* Properties of day20                                                     *)
(***************************************************************************)
\* v is inside the inclusive range of one of the rules
Blacklisted(v, rs) == \E k \in 1..Len(rs) : U32_le(rs[k].low, v) /\ U32_le(v, rs[k].high)

\* the smallest u32 no rule contains: it is 0 or follows the end of a rule
LowestLegal(rs) ==
    LET after == {U32_add(rs[k].high, U32(1)).val : k \in {j \in 1..Len(rs) : rs[j].high # U32_MAX}}
        legal == {v \in {U32(0)} \cup after : ~Blacklisted(v, rs)}
    IN  IF legal = {} THEN ReturnedNone
        ELSE ReturnedSome(CHOOSE v \in legal : \A w \in legal : U32_le(v, w))

\* C13: lowest_legal_value returns Some(v) for the smallest u32 v that no
\* rule contains, whatever the rules are (none, overlapping, adjacent,
\* reaching u32::MAX - 1 or u32::MAX), and None exactly when every u32 is
\* contained in a rule.
C13_LowestLegalValue ==
    (rfn = "lowest_legal_value" /\ rpc # "call") => answer = LowestLegal(rules)

\* the inclusive ends of the bounds, as numbers
LowerEnd(bs) == IF bs.start.bound = "Included" THEN bs.start.v[2] ELSE 0
UpperEnd(bs) == IF bs.end.bound = "Included" THEN bs.end.v[2] ELSE bs.end.v[2] - 1

\* the number of integers inside the bounds that no rule contains
NumLegal(rs, bs) ==
    Cardinality({n \in LowerEnd(bs)..UpperEnd(bs) : ~Blacklisted(U32(n), rs)})

\* C14: num_legal_values_in returns the number of integers inside bounds
\* that no rule contains, for every non-empty rule set and every bounds.
C14_NumLegalValuesIn ==
    (rfn = "num_legal_values_in" /\ rpc # "call" /\ rules # <<>>) =>
        answer = ReturnedCount(U32(NumLegal(rules, bounds)))

(***************************************************************************)
(* Properties of day10                                                     *)
(***************************************************************************)
\* how many times x occurs in a sequence
Count(seq, x) == Cardinality({k \in 1..Len(seq) : seq[k] = x})

\* every Transfer of the input found its bot full as many times as the input has it
AllTransfersExecuted ==
    \A k \in 1..Len(input) :
        input[k].op = "Transfer" => Count(transfers, input[k]) = Count(input, input[k])

\* C15, as stated: process executes each Transfer instruction exactly once.
C15_EachTransferExecuted == <>AllTransfersExecuted

\* the latest turn popped a Transfer
TransferTurn == plast.turns = 1 /\ plast.instruction.op = "Transfer"

\* what the values handed out by the latest turn must be
TurnGives ==
    LET bot == plast.bots[plast.instruction.bot_id]
        a == bot.low[1]
        b == bot.high[1]
        smaller == IF a <= b THEN a ELSE b
        larger == IF a <= b THEN b ELSE a
    IN  <<[value |-> smaller, receiver |-> plast.instruction.low_dest],
          [value |-> larger, receiver |-> plast.instruction.high_dest]>>

\* the values handed out reached where they were sent: an output holds the
\* value, a bot was called with it and holds the last value it was handed
GivesArrived ==
    /\ \A k \in 1..Len(plast.gives) :
          plast.gives[k].receiver.receiver = "Output" =>
              /\ plast.gives[k].receiver.id \in DOMAIN outputs
              /\ outputs[plast.gives[k].receiver.id] = plast.gives[k].value
    /\ LET toBots == SelectSeq(plast.gives, LAMBDA g : g.receiver.receiver = "Bot")
       IN  /\ Len(plast.calls) = Len(toBots)
           /\ \A k \in 1..Len(toBots) :
                 /\ plast.calls[k].value = toBots[k].value
                 /\ plast.calls[k].bot.id = toBots[k].receiver.id
           /\ toBots # <<>> =>
                 LET g == toBots[Len(toBots)]
                 IN  <<g.value>> \in {bots[g.receiver.id].low, bots[g.receiver.id].high}

\* C15, amended: a Transfer is executed at most once, and exactly once when
\* process returns Ok; it is executed only when its bot holds two values, the
\* smaller goes to low_dest and the larger to high_dest, unless an output
\* refuses a value and process returns Err; a Transfer popped while its bot
\* is missing or not full changes no bot and no output and goes to the back
\* of the queue; the documented example ends with outputs {0: 5, 1: 2, 2: 3}
\* and bot 2 holding (2, 5).
C15_TransferRule ==
    /\ \A k \in 1..Len(input) : Count(transfers, input[k]) <= Count(input, input[k])
    /\ ppc = "Ok" => AllTransfersExecuted
    /\ (TransferTurn /\ plast.full) =>
          /\ instructions = Tail(plast.instructions)
          /\ IF ppc = "Err"
             THEN plast.gives \in {SubSeq(TurnGives, 1, 1), TurnGives}
             ELSE plast.gives = TurnGives /\ GivesArrived
    /\ (TransferTurn /\ ~plast.full) =>
          /\ bots = plast.bots
          /\ outputs = plast.outputs
          /\ plast.gives = <<>>
          /\ instructions = Append(Tail(plast.instructions), plast.instruction)
    /\ (input = EXAMPLE_INSTRUCTIONS /\ ppc # "loop") =>
          /\ ppc = "Ok"
          /\ outputs = [id \in {0, 1, 2} |-> IF id = 0 THEN 5 ELSE IF id = 1 THEN 2 ELSE 3]
          /\ {id \in DOMAIN bots : bots[id].low = <<2>> /\ bots[id].high = <<5>>} = {2}

\* the documented example ran to its end, its three Transfers executed,
\* the last of them after it had been sent to the back of the queue
C15_Witness ==
    /\ input = EXAMPLE_INSTRUCTIONS
    /\ ppc = "Ok"
    /\ Len(transfers) = 3
    /\ TransferTurn
    /\ plast.full
    /\ plast.instruction.bot_id = 0

\* C16: Bot::add_value returns an error when the bot already holds two
\* values, and Ok only when it held none or one.
C16_AddValueFullIsError ==
    \A k \in 1..Len(plast.calls) :
        /\ Bot_is_full(plast.calls[k].bot) => plast.calls[k].result = "Err"
        /\ plast.calls[k].result = "Ok" => ~Bot_is_full(plast.calls[k].bot)

(***************************************************************************)
(* Properties of day09                                                     *)
(***************************************************************************)
\* the number a str of digits writes, when it is small
RECURSIVE Decimal(_, _)
Decimal(str, acc) ==
    IF str = <<>> THEN acc ELSE Decimal(Tail(str), 10 * acc + DigitValue(Head(str)))

\* the marker that starts at the "(" of index p of the text, index from 0:
\* "(", digits, "x", digits, ")".  well says whether the text has such a
\* marker there, cut whether the text ends before the marker does
MarkerAt(txt, p) ==
    LET IsDigits(a, b) == a <= b /\ \A k \in a..b : txt[k + 1] \in Digits
        x == Find(txt, p + 1, "x")
        close == Find(txt, x + 1, ")")
        whole == x < Len(txt) /\ close < Len(txt)
                 /\ IsDigits(p + 1, x - 1) /\ IsDigits(x + 1, close - 1)
        prefix == \/ /\ x = Len(txt)
                     /\ \A k \in (p + 1)..(Len(txt) - 1) : txt[k + 1] \in Digits
                  \/ /\ x < Len(txt)
                     /\ IsDigits(p + 1, x - 1)
                     /\ close = Len(txt)
                     /\ \A k \in (x + 1)..(Len(txt) - 1) : txt[k + 1] \in Digits
    IN  [well |-> whole,
         cut |-> ~whole /\ prefix,
         length |-> IF whole THEN Decimal(SubSeq(txt, p + 2, x), 0) ELSE 0,
         count_str |-> IF whole THEN SubSeq(txt, x + 2, close) ELSE <<>>,
         data |-> close + 1]

\* the decompression of the text from index p on: every character outside a
\* marker as it is, the section of a marker count times, markers looked for
\* again only after the section.  kind is "Ok", "cut" for a text that ends
\* inside a marker or inside its section, "bad" for a text with a "(" that
\* starts no marker
RECURSIVE Decompressed(_, _)
Decompressed(txt, p) ==
    IF p >= Len(txt) THEN [kind |-> "Ok", out |-> <<>>]
    ELSE IF txt[p + 1] # "("
    THEN LET rest == Decompressed(txt, p + 1)
         IN  [rest EXCEPT !.out = <<txt[p + 1]>> \o rest.out]
    ELSE LET m == MarkerAt(txt, p) IN
         IF m.cut THEN [kind |-> "cut", out |-> <<>>]
         ELSE IF ~m.well THEN [kind |-> "bad", out |-> <<>>]
         ELSE IF m.data + m.length > Len(txt) THEN [kind |-> "cut", out |-> <<>>]
         ELSE LET rest == Decompressed(txt, m.data + m.length)
                  copies == [k \in 1..(m.length * Decimal(m.count_str, 0)) |->
                                txt[m.data + ((k - 1) % m.length) + 1]]
              IN  [rest EXCEPT !.out = copies \o rest.out]

C17_WitnessCut ==
    /\ zfn = "decompress"
    /\ text = Marker(<<"2">>, <<"3">>) \o <<"A">>
    /\ zret = Err("UnexpectedState")

\* the length of the recursive decompression of the characters of index p
\* to q - 1, as a number: a character outside a marker counts 1, the
\* section of a marker counts its own recursive length times the count.
\* ill is set when a "(" starts no marker or a section ends after q
RECURSIVE DeepLength(_, _, _)
DeepLength(txt, p, q) ==
    IF p >= q THEN [ill |-> FALSE, n |-> <<>>]
    ELSE IF txt[p + 1] # "("
    THEN LET rest == DeepLength(txt, p + 1, q)
         IN  [rest EXCEPT !.n = BigAdd(Big(1), rest.n)]
    ELSE LET m == MarkerAt(txt, p) IN
         IF ~m.well \/ m.data + m.length > q THEN [ill |-> TRUE, n |-> <<>>]
         ELSE LET section == DeepLength(txt, m.data, m.data + m.length)
                  rest == DeepLength(txt, m.data + m.length, q)
                  count == ParseDigits(m.count_str, <<>>)
              IN  [ill |-> section.ill \/ rest.ill,
                   n |-> BigAdd(BigMul(count, section.n), rest.n)]

\* C18: count_decompressed_v2 returns the length of the recursive
\* decompression of its input, for every input whose markers are well nested.
C18_CountDecompressedV2 ==
    (zfn = "count_decompressed_v2" /\ zret # Running) =>
        LET expected == DeepLength(text, 0, Len(text)) IN
        /\ ~expected.ill => zret = Ok(expected.n)
        /\ text = EXAMPLE_X8x2_3x3ABCY => zret = Ok(Big(20))
        /\ text = EXAMPLE_NESTED => zret = Ok(Big(241920))

(***************************************************************************)
(* Properties of day02                                                     *)
(***************************************************************************)
\* the cell one step from k in the direction of inst, as a pair of integers
\* that may lie outside the pad
Target(k, inst) ==
    CASE inst = "Up" -> [x |-> k.x, y |-> k.y - 1]
      [] inst = "Down" -> [x |-> k.x, y |-> k.y + 1]
      [] inst = "Left" -> [x |-> k.x - 1, y |-> k.y]
      [] inst = "Right" -> [x |-> k.x + 1, y |-> k.y]

\* the cell is on the grid and holds a button
OnButton(pad, c) ==
    /\ c.y \in 0..(Len(pad) - 1)
    /\ c.x \in 0..(Len(pad[c.y + 1]) - 1)
    /\ pad[c.y + 1][c.x + 1] # Blank

\* C19: from center_on('5') on either pad the key stays on a button whatever
\* is shifted, a move off the grid or onto a blank cell leaves the key where
\* it was, any other move goes one cell in its direction, and decode_on of
\* the example lines returns 1985 on the ortho pad and 5DB3 on the diag pad.
C19_ShiftStaysOnButton ==
    kfn # "-" =>
        /\ OnButton(keypad, kkey)
        /\ kret # Panic
        /\ kshift # NoShift =>
              kkey = IF OnButton(keypad, Target(kshift.from, kshift.inst))
                     THEN Target(kshift.from, kshift.inst)
                     ELSE kshift.from
        /\ (kfn = "decode_on" /\ klines = EXAMPLE_LINES /\ kret # Running) =>
              kret = Ok(IF keypad = KEYPAD_ORTHO THEN <<"1", "9", "8", "5">>
                                                 ELSE <<"5", "D", "B", "3">>)

\* a move onto a blank cell of the diag pad was refused after the key had moved
C19_Witness ==
    /\ keypad = KEYPAD_DIAG
    /\ kshift.inst = "Up"
    /\ kshift.from = [x |-> 1, y |-> 1]
    /\ kkey = [x |-> 1, y |-> 1]

\* decode_on returned the code of the example lines on the diag pad
C19_WitnessExample ==
    /\ kfn = "decode_on"
    /\ klines = EXAMPLE_LINES
    /\ keypad = KEYPAD_DIAG
    /\ kret.kind = "Ok"

(***************************************************************************)
(* Properties of day08                                                     *)
(***************************************************************************)
\* the pixel at column x of row y of the picture, row 0 at the top, is lit
PixelLit(scr, x, y) == Point(x, size.height - 1 - y) \in scr

\* the picture that the lit pixels must be after the last instruction, its
\* rows counted from the top
Expected(x, y) ==
    CASE sinst.op = "Rect" -> PixelLit(sprev, x, y) \/ (x < sinst.a /\ y < sinst.b)
      [] sinst.op = "RotateRow" ->
            IF y = sinst.a
            THEN \E x0 \in 0..(size.width - 1) :
                    (x0 + sinst.b) % size.width = x /\ PixelLit(sprev, x0, y)
            ELSE PixelLit(sprev, x, y)
      [] sinst.op = "RotateCol" ->
            IF x = sinst.a
            THEN \E y0 \in 0..(size.height - 1) :
                    (y0 + sinst.b) % size.height = y /\ PixelLit(sprev, x, y0)
            ELSE PixelLit(sprev, x, y)

\* the instruction moved the pixels as the claim says, and panicked never
AppliedAsDocumented ==
    /\ ~spanic
    /\ \A x \in 0..(size.width - 1), y \in 0..(size.height - 1) :
          PixelLit(screen, x, y) <=> Expected(x, y)
    /\ sinst.op \in {"RotateRow", "RotateCol"} => Cardinality(screen) = Cardinality(sprev)

\* C20: for every B >= 0 a row rotation moves the pixel of column x to
\* column (x + B) mod width, a column rotation moves the pixel of row y to row
\* (y + B) mod height counted downward, rect WxH lights exactly the top-left
\* W-by-H rectangle, every other pixel stays as it was, and a rotation keeps
\* the number of lit pixels.
C20_ScreenOperations ==
    sinst # NoInstruction => AppliedAsDocumented

(***************************************************************************)
(* Properties of day14                                                     *)
(***************************************************************************)
\* the first index after the special ones: from it on every hash is DEFAULT_HASH
Horizon == PAD_LENGTH + 4

\* the index at is a key: its hash has a triplet, and one of the EXPIRY
\* hashes after it has a quintuplet of the same character.  The hashes after
\* Horizon equal the one at Horizon, so the search stops there
IsKey(at) ==
    LET ch == first_triplet_in(make_hash(at))
        until == IF at + 1 > Horizon THEN at + 1 ELSE Horizon
    IN  /\ ch # "-"
        /\ \E j \in (at + 1)..until :
              /\ j <= at + EXPIRY
              /\ \E k \in 1..Len(quintuplets_in(make_hash(j))) : quintuplets_in(make_hash(j))[k] = ch

\* the index of the PAD_LENGTH-th key, the keys in the order of their indices
LastKeyIndex ==
    LET among == {at \in 0..(2 * PAD_LENGTH) : IsKey(at)}
    IN  CHOOSE at \in among : Cardinality({j \in among : j <= at}) = PAD_LENGTH

\* C21: generate_onetime_pad returns the index of the 64th key, the keys counted
\* in the order of the indices of their triplets, whatever the hashes are.
C21_ReturnsLastKeyIndex ==
    hret.done => hret.final_insert = LastKeyIndex

(***************************************************************************)
(* Properties of day21                                                     *)
(***************************************************************************)
\* C22: on a buffer of 8 distinct letters every operation with positions
\* below 8, a count up to 8 and letters of the buffer is undone by unapply,
\* so that unscramble of scramble with the same operations returns the input:
\* neither function panics, and the buffer unscramble returns is the input.
C22_UnscrambleRestores ==
    /\ wpc # "panicked"
    /\ wpc = "returned" => buffer = winput

(***************************************************************************)
(* Properties of Instruction::toggle on a Copy with a literal destination  *)
(***************************************************************************)
\* a Toggle was executed whose target is a Copy with a literal destination
ToggledLiteralCopy ==
    /\ ToggleInBounds
    /\ LET target == At(last.program, last.ip + value(last.regs, last.instr.x))
       IN  target.op = "Copy" /\ target.y.k = "lit"

\* C23: toggling a Copy whose destination is a literal is a no-op: the
\* instruction at the toggled index is the same Copy before and after.
C23_ToggleLiteralCopyNoOp ==
    ToggledLiteralCopy =>
        LET t == last.ip + value(last.regs, last.instr.x)
        IN  At(program, t) = At(last.program, t)

\* C23 as the code has it: the Copy becomes the Jnz of the same two
\* operands, the literal second operand now the offset of the jump; every
\* other instruction and every register stay.
C23_ToggleLiteralCopyToJnz ==
    ToggledLiteralCopy =>
        LET t == last.ip + value(last.regs, last.instr.x) IN
        /\ pc # "panicked"
        /\ At(program, t) = Jnz(At(last.program, t).x, At(last.program, t).y)
        /\ At(program, t) # At(last.program, t)
        /\ \A j \in 0..(Len(program) - 1) : j # t => At(program, j) = At(last.program, j)
        /\ regs = last.regs

\* the Toggle of the first instruction hit a Copy of a register onto a literal
C23_Witness ==
    /\ ToggledLiteralCopy
    /\ last.ip = 0
    /\ At(last.program, 1).op = "Copy"
    /\ At(last.program, 1).x.k = "reg"

(***************************************************************************)
(* Properties of the day11 visited set                                     *)
(***************************************************************************)
\* t is s with the same elevator floor and its elements renamed
Symmetric(s, t) ==
    /\ s.elevator = t.elevator
    /\ \E r \in Renamings : Rename(s, r) = t

\* C24: a candidate child is discarded as already visited only if the
\* visited state it was taken for has the same elevator floor and the same
\* placement of the devices up to a renaming of the elements
C24_DiscardedOnlyIfSymmetric ==
    (vpc = "done" /\ discarded = TRUE) => Symmetric(earlier, candidate)

(***************************************************************************)
(* Properties of the day12 Computer beside the shared one                  *)
(***************************************************************************)
Common == IF Len(ttrace) < Len(strace) THEN Len(ttrace) ELSE Len(strace)

Finished(c) == c.status \in {"halted", "panicked"}

\* C25: on a program of cpy to a register, inc, dec and jnz by a literal,
\* from the same seeding, the day12 Computer and the assembunny Computer go
\* through the same (a, b, c, d, ip) step after step, and when one of them
\* has halted the other halts after the same number of steps
C25_SameSteps ==
    /\ \A k \in 1..Common : ttrace[k] = strace[k]
    /\ Finished(twelve) => Len(strace) <= Len(ttrace)
    /\ Finished(shared) => Len(ttrace) <= Len(strace)

\* both halted after a run that jumped backwards and changed register a
C25_Witness ==
    /\ twelve.status = "halted"
    /\ shared.status = "halted"
    /\ Len(ttrace) = Len(strace)
    /\ Len(ttrace) >= 3
    /\ \E k \in 2..Len(ttrace) : ttrace[k].ip # HALT_IP /\ ttrace[k].ip < ttrace[k - 1].ip
    /\ \E k \in 1..Len(ttrace) : ttrace[k].regs["a"] # ttrace[1].regs["a"]

\* both panicked on the overflow of a register, at the same step
C25_WitnessOverflow ==
    /\ tbuild = "on"
    /\ twelve.status = "panicked"
    /\ shared.status = "panicked"
    /\ Len(ttrace) = Len(strace)
    /\ twelve.ip # HALT_IP
    /\ in_program(twelve.program, twelve.ip)
    /\ At(twelve.program, twelve.ip).op \in {"Increase", "Decrease"}

====
